---- MODULE Spec2Model ----
(***************************************************************************)
(* A model of dco, the layered configuration loader (src/src/dco).         *)
(*                                                                         *)
(*   core.py     deep_merge, _envvar_to_nested, ConfigLoader               *)
(*   secrets.py  CachedProvider                                            *)
(*   utils.py    compare_schemas                                           *)
(*   cli.py      schema_diff_command                                       *)
(*                                                                         *)
(* Strings whose characters the code inspects (environment variable names, *)
(* mapping keys) are sequences of one-character strings.  A Python dict is *)
(* a function from keys to values; a value is Scalar(x) for anything that  *)
(* is not a dict (str, int, list, None ...) or Dict(m) for a nested dict.  *)
(*                                                                         *)
(* A call that may raise yields Return(value) or Raise(exception), and an   *)
(* exception is handed on by every caller up to the except that takes it.  *)
(*                                                                         *)
(* The module holds several specifications over one set of variables:      *)
(*   SpecMerge    deep_merge applied to two bounded mappings               *)
(*   SpecKey      _envvar_to_nested applied to bounded keys                *)
(*   SpecLoad     ConfigLoader.load() over drawn files and environment     *)
(*   SpecGetter   threads using the getter of get_cached_loader()          *)
(*   SpecSingle   the same getter used by a single caller                  *)
(*   SpecSecrets  CachedProvider.get_secrets over a changing backend       *)
(*   SpecYaml     _parse_yaml over bounded YAML texts                      *)
(*   SpecSchema   compare_schemas and schema-diff over bounded schemas     *)
(*   SpecHeap     deep_merge and load() over dict objects on a heap        *)
(*   SpecLife     a loader built and used while os.environ changes         *)
(*   SpecFiles    load() over one base and one environment-qualified file  *)
(*   SpecDotenvKey  _read_dotenv over a .env file of one key               *)
(*   SpecRepeat   load() called again on the same loader                   *)
(*   SpecCallers  threads inside CachedProvider.get_secrets                *)
(*   SpecAssoc    three mappings merged in the two groupings               *)
(* Each specification leaves the variables of the others untouched.        *)
(***************************************************************************)
EXTENDS Integers, Sequences, FiniteSets, TLC

VARIABLES
    \* ---- SpecMerge: one call deep_merge(a, b)
    mA,         \* argument a
    mB,         \* argument b
    mOut,       \* the returned mapping, NoResult before the call returns
    mPc,        \* "call" before, "done" after
    \* ---- SpecKey: one call _envvar_to_nested(key, value, prefix)
    kKey,       \* argument key
    kValue,     \* argument value
    kPrefix,    \* argument prefix
    kOut,       \* what the call did: Return(mapping) or Raise(exception)
    kPc,        \* "call" before, "done" after
    \* ---- SpecSecrets: a CachedProvider over a backend provider
    cpTtl,      \* CachedProvider.ttl
    cpCache,    \* CachedProvider._cache: env -> [ts, value], a partial function
    cpRet,      \* what the last get_secrets call did
    cpEnv,      \* the env argument of the last get_secrets call
    cpSeq,      \* number of get_secrets calls made so far
    clock,      \* time.time()
    backendMode,    \* what the wrapped provider does when called
    backendVer,     \* the version of the content the backend holds
    backendCalls,   \* number of calls the wrapped provider has received
    \* ---- SpecGetter: threads using the getter of get_cached_loader()
    gCache,     \* the lru_cache entry of _get: NoInstance or the cached instance
    tPc,        \* per thread: "idle", "loading" (inside load()), "loaded"
    tRes,       \* per thread: what its load() did, while "loaded"
    tRet,       \* per thread: what its last completed _get() call did
    tGen,       \* per thread: the generation its current or last call began in
    worldVer,   \* version of the files and environment variables load() reads
    worldState, \* "ok", "malformed" (a bad file) or "invalid" (fails validation)
    gen,        \* number of cache_clear() calls so far: the cache generation
    nLoads,     \* number of load() calls begun so far
    genLoads,   \* per generation: load() calls begun in it that returned a value
    genRets,    \* per generation: instances returned to calls begun in it
    \* ---- SpecLoad: one call ConfigLoader.load(overrides)
    ldFiles,        \* the candidate files of config_dir, by position in the list
    ldLenient,      \* ConfigLoader.lenient_yaml
    ldLoadDotenv,   \* ConfigLoader.load_dotenv
    ldDotenv,       \* the .env file of config_dir
    ldSecrets,      \* what secrets_provider.get_secrets(env) does
    osEnviron,      \* os.environ.items(): <<name, value>> in iteration order
    ldOverrides,    \* the argument of load(): a dict, or None
    ldOut,          \* what load() did: Return(instance) or the exception
    ldLayers,       \* the five layers load() read
    ldMerged,       \* the mapping load() passed to validate_model
    ldPc,           \* "call" before, "done" after
    \* ---- SpecYaml: one call _parse_yaml(text, lenient), then load() of the text
    yText,      \* the text of config.yaml, line by line
    yLenient,   \* argument lenient, ConfigLoader.lenient_yaml
    yOut,       \* what _parse_yaml did, with the texts handed to yaml.safe_load
    yLoad,      \* what load() did with the text as config.yaml
    yPc,        \* "call", "parsed" after _parse_yaml, "done" after load()
    \* ---- SpecSchema: compare_schemas(old, new) and the schema-diff command
    dOld,       \* what _load_schema_file(args.old) does
    dNew,       \* what _load_schema_file(args.new) does
    dOut,       \* what compare_schemas(old, new) returned
    dExit,      \* the exit status of the schema-diff command, -1 before it ends
    dPc,        \* "call", "compared" after compare_schemas, "done" after the command
    \* ---- SpecHeap: deep_merge and the merges of load() over dict objects
    hOp,        \* "deep_merge" for one call deep_merge(a, b), "load" for load()
    hArgs,      \* the addresses of the arguments: a and b, or the five layers
    hHeap0,     \* the dict objects before the call, by address
    hHeap,      \* the dict objects now
    hOut,       \* the address of the returned dict, 0 before the call returns
    hPc,        \* "call" before, "done" after
    \* ---- SpecLife: a ConfigLoader from construction on
    eEnviron,       \* os.environ: the value of each environment-selecting variable
    eSelf,          \* the loader: its env_key and env, NoLoader before construction
    eAtInit,        \* what os.environ held for env_key when the loader was built
    eFiles,         \* candidate_files of the last _read_files, <<>> before
    eSecretsEnv,    \* the argument of the last get_secrets call, "" before
    eLoads,         \* number of load() calls so far
    eChanges,       \* number of changes of os.environ so far
    \* ---- SpecDotenvKey: _read_dotenv over a .env file of one key
    dfKey,      \* the key of the one line of the file
    dfValue,    \* its value
    dfOut,      \* what _read_dotenv returned
    dfPc,       \* "call" before, "done" after
    \* ---- SpecRepeat: load() called again on the same loader
    rContent,   \* what files, .env, secrets backend, os.environ and overrides hold
    rSecretsShared, \* the provider answers with the same dict object every time
    rShared,    \* addresses of the provider's dict and of the caller's overrides
    rHeap0,     \* the dict objects before the first load()
    rHeap,      \* the dict objects now
    rOuts,      \* one record per load() that returned, in order
    \* ---- SpecCallers: threads inside CachedProvider.get_secrets
    gsPc,       \* per thread: "start", "fetch", "store" or "done"
    gsEnv,      \* per thread: the argument env
    gsNow,      \* per thread: the local now
    gsValue,    \* per thread: the local value
    gsRet,      \* per thread: what the call returned
    \* ---- SpecAssoc: three mappings merged in the two groupings
    aA,         \* the accumulator so far
    aB,         \* the mapping merged next
    aC,         \* the mapping merged last
    aStepwise,  \* deep_merge(deep_merge(a, b), c), NoResult before the call
    aAtOnce,    \* deep_merge(a, deep_merge(b, c)), NoResult before the call
    aPc         \* "call" before, "done" after

mergeVars == <<mA, mB, mOut, mPc>>
keyVars == <<kKey, kValue, kPrefix, kOut, kPc>>
secretVars == <<cpTtl, cpCache, cpRet, cpEnv, cpSeq, clock,
                backendMode, backendVer, backendCalls>>
getterVars == <<gCache, tPc, tRes, tRet, tGen, worldVer, worldState, gen, nLoads,
                genLoads, genRets>>
loadVars == <<ldFiles, ldLenient, ldLoadDotenv, ldDotenv, ldSecrets, osEnviron,
              ldOverrides, ldOut, ldLayers, ldMerged, ldPc>>
yamlVars == <<yText, yLenient, yOut, yLoad, yPc>>
schemaVars == <<dOld, dNew, dOut, dExit, dPc>>
heapVars == <<hOp, hArgs, hHeap0, hHeap, hOut, hPc>>
lifeVars == <<eEnviron, eSelf, eAtInit, eFiles, eSecretsEnv, eLoads, eChanges>>
dotVars == <<dfKey, dfValue, dfOut, dfPc>>
repVars == <<rContent, rSecretsShared, rShared, rHeap0, rHeap, rOuts>>
callerVars == <<gsPc, gsEnv, gsNow, gsValue, gsRet>>
assocVars == <<aA, aB, aC, aStepwise, aAtOnce, aPc>>
vars == <<mergeVars, keyVars, secretVars, getterVars, loadVars, yamlVars,
         schemaVars, heapVars, lifeVars, dotVars, repVars, callerVars,
         assocVars>>

-----------------------------------------------------------------------------
(* Values *)

EmptyMap == <<>>
Scalar(x) == [isdict |-> FALSE, val |-> x]
Dict(m) == [isdict |-> TRUE, map |-> m]
IsDict(v) == v.isdict
NoResult == Scalar("<none>")

\* What a call did: it returned ret, or raised the exception exc.
Return(v) == [exc |-> "none", ret |-> v]
Raise(e) == [exc |-> e, ret |-> NoResult]
Returned(r) == r.exc = "none"
NotCalled == Raise("<not called>")

\* The variables of a specification while another one runs.
MergeIdle == mA = EmptyMap /\ mB = EmptyMap /\ mOut = NoResult /\ mPc = "idle"
KeyIdle ==
    /\ kKey = <<>> /\ kValue = "" /\ kPrefix = <<>>
    /\ kOut = NotCalled /\ kPc = "idle"

\* Keys used to build input mappings: "db" and "host".
KeyDb == <<"d", "b">>
KeyHost == <<"h", "o", "s", "t">>
TreeKeys == {KeyDb, KeyHost}
TreeScalars == {"h1", "h2"}

\* The inputs of SpecMerge: every mapping over TreeKeys with at most
\* MaxEntries keys in all, counted over every nesting level.
MaxEntries == 3

RECURSIVE MapsOfSize(_)
ValuesOfSize(n) ==
    (IF n = 0 THEN {Scalar(s) : s \in TreeScalars} ELSE {})
        \cup {Dict(m) : m \in MapsOfSize(n)}

MapsOfSize(n) ==
    IF n = 0 THEN {EmptyMap}
    ELSE {k :> v : k \in TreeKeys, v \in ValuesOfSize(n - 1)}
         \cup UNION {{(KeyDb :> v1) @@ (KeyHost :> v2) :
                        v1 \in ValuesOfSize(i), v2 \in ValuesOfSize(n - 2 - i)} :
                     i \in 0..(n - 2)}

Mappings == UNION {MapsOfSize(n) : n \in 0..MaxEntries}

SecretsIdle ==
    /\ cpTtl = 0 /\ cpCache = EmptyMap /\ cpRet = NotCalled /\ cpEnv = ""
    /\ cpSeq = 0 /\ clock = 0
    /\ backendMode = "ok" /\ backendVer = 0 /\ backendCalls = 0

\* A validated configuration instance: id tells instances apart (object
\* identity), ver is the version of the files and environment it was read from.
Instance(n, v) == [id |-> n, ver |-> v]
NoInstance == Instance(0, 0)
GetterIdle ==
    /\ gCache = NoInstance /\ tPc = <<>> /\ tRes = <<>> /\ tRet = <<>> /\ tGen = <<>>
    /\ worldVer = 0 /\ worldState = "ok" /\ gen = 0 /\ nLoads = 0
    /\ genLoads = <<>> /\ genRets = <<>>

LoadIdle ==
    /\ ldFiles = <<>> /\ ldLenient = FALSE /\ ldLoadDotenv = FALSE
    /\ ldDotenv = NotCalled /\ ldSecrets = NotCalled /\ osEnviron = <<>>
    /\ ldOverrides = NoResult /\ ldOut = NotCalled /\ ldLayers = <<>>
    /\ ldMerged = NoResult /\ ldPc = "idle"

AssocIdle ==
    /\ aA = <<>> /\ aB = <<>> /\ aC = <<>>
    /\ aStepwise = NoResult /\ aAtOnce = NoResult /\ aPc = "idle"

CallersIdle ==
    /\ gsPc = <<>> /\ gsEnv = <<>> /\ gsNow = <<>> /\ gsValue = <<>> /\ gsRet = <<>>

RepeatIdle ==
    /\ rContent = <<>> /\ rSecretsShared = FALSE /\ rShared = <<>>
    /\ rHeap0 = <<>> /\ rHeap = <<>> /\ rOuts = <<>>

DotIdle ==
    /\ dfKey = <<>> /\ dfValue = ""
    /\ dfOut = NotCalled /\ dfPc = "idle"

LifeIdle ==
    /\ eEnviron = <<>> /\ eSelf = <<>> /\ eAtInit = "" /\ eFiles = <<>>
    /\ eSecretsEnv = "" /\ eLoads = 0 /\ eChanges = 0

HeapIdle ==
    /\ hOp = "" /\ hArgs = <<>> /\ hHeap0 = <<>> /\ hHeap = <<>> /\ hOut = 0
    /\ hPc = "idle"

SchemaIdle ==
    /\ dOld = NotCalled /\ dNew = NotCalled /\ dOut = NoResult /\ dExit = -1
    /\ dPc = "idle"

YamlIdle ==
    /\ yText = <<>> /\ yLenient = FALSE /\ yOut = NotCalled /\ yLoad = NotCalled
    /\ yPc = "idle"

-----------------------------------------------------------------------------
(* core.py: deep_merge *)

RECURSIVE deep_merge(_, _)

\* A deep_merge that never recurses: the overlay value always replaces.
\* deep_merge that starts from an empty result instead of a copy of a
deep_merge_overlay_only(a, b) == b

deep_merge_shallow(a, b) ==
    [k \in DOMAIN a \cup DOMAIN b |-> IF k \in DOMAIN b THEN b[k] ELSE a[k]]

\* out = dict(a); for k, v in b.items(): both dicts -> recurse, else out[k] = v
deep_merge(a, b) ==
    [k \in DOMAIN a \cup DOMAIN b |->
        IF k \in DOMAIN b
        THEN IF k \in DOMAIN a /\ IsDict(a[k]) /\ IsDict(b[k])
             THEN Dict(deep_merge(a[k].map, b[k].map))
             ELSE b[k]
        ELSE a[k]]

-----------------------------------------------------------------------------
(* core.py: _envvar_to_nested *)

DEFAULT_PREFIX == <<"A", "P", "P", "_">>

UpperChars == <<"A", "B", "C", "D", "E", "F", "G", "H", "I", "J", "K", "L", "M",
                "N", "O", "P", "Q", "R", "S", "T", "U", "V", "W", "X", "Y", "Z">>
LowerChars == <<"a", "b", "c", "d", "e", "f", "g", "h", "i", "j", "k", "l", "m",
                "n", "o", "p", "q", "r", "s", "t", "u", "v", "w", "x", "y", "z">>

\* str.lower(), character by character
lower_char(c) ==
    IF \E i \in 1..Len(UpperChars) : UpperChars[i] = c
    THEN LowerChars[CHOOSE i \in 1..Len(UpperChars) : UpperChars[i] = c]
    ELSE c
lower(s) == [i \in 1..Len(s) |-> lower_char(s[i])]

\* str.startswith(prefix)
startswith(s, p) == Len(s) >= Len(p) /\ SubSeq(s, 1, Len(p)) = p

\* s.split("__"): scan from the left, cut at each leftmost "__".
RECURSIVE split_scan(_, _, _, _)
split_scan(s, i, cur, out) ==
    IF i > Len(s) THEN Append(out, cur)
    ELSE IF i < Len(s) /\ s[i] = "_" /\ s[i + 1] = "_"
         THEN split_scan(s, i + 2, <<>>, Append(out, cur))
         ELSE split_scan(s, i + 1, Append(cur, s[i]), out)
split_dunder(s) == split_scan(s, 1, <<>>, <<>>)

\* key_path without the lower-casing
normalize_path_nolower(parts) == SelectSeq(parts, LAMBDA p : p # <<>>)

\* [p.lower() for p in key_path if p != ""]
normalize_path(parts) == SelectSeq([i \in 1..Len(parts) |-> lower(parts[i])],
                                  LAMBDA p : p # <<>>)

\* cur = {}; node = cur; for part in key_path[:-1]: node[part] = {}; ...
\* node[key_path[-1]] = value   (key_path is not empty)
RECURSIVE build_nested(_, _)
build_nested(key_path, value) ==
    IF Len(key_path) = 1 THEN Head(key_path) :> Scalar(value)
    ELSE Head(key_path) :> Dict(build_nested(Tail(key_path), value))

_envvar_to_nested(key, value, prefix) ==
    IF ~startswith(key, prefix) THEN Raise("AssertionError")
    ELSE LET key_path ==
                normalize_path(split_dunder(SubSeq(key, Len(prefix) + 1, Len(key))))
         IN  IF key_path = <<>> THEN Raise("IndexError")
             ELSE Return(Dict(build_nested(key_path, value)))

-----------------------------------------------------------------------------
(* core.py: ConfigLoader, the four readers and load() *)

\* Python truth of a value in "x or {}": None, [], 0, False, "" and {} are false.
FalsyScalars == {"None", "[]", "0", "False", ""}
Falsy(v) == IF IsDict(v) THEN v.map = EmptyMap ELSE v.val \in FalsyScalars
or_empty(v) == IF Falsy(v) THEN Dict(EmptyMap) ELSE v

\* MergeError(f"Failed reading {p}: ..."): the exception and the path it names
RaiseAt(e, p) == [exc |-> e, ret |-> NoResult, at |-> p]

\* candidate_files, in the order of the list: config.yaml, config.yml,
\* config.json, config.<env>.yaml, config.<env>.yml, config.<env>.json
CandidateSuffix == <<".yaml", ".yml", ".json", ".yaml", ".yml", ".json">>
Candidates == 1..Len(CandidateSuffix)

\* A file: whether it exists, what the parser does with its text (strict) and
\* what it does with the text after the lenient sanitization (retry).
AbsentFile == [exists |-> FALSE, strict |-> NotCalled, retry |-> NotCalled]
FileWith(strict, retry) == [exists |-> TRUE, strict |-> strict, retry |-> retry]

\* _parse_yaml retrying after a ScannerError whatever lenient is
_parse_yaml_retry_always(file, lenient) ==
    IF Returned(file.strict) THEN file.strict
    ELSE IF file.strict.exc = "ScannerError" THEN file.retry
    ELSE file.strict

\* _parse_yaml(text, lenient): a ScannerError is retried once when lenient
_parse_yaml(file, lenient) ==
    IF Returned(file.strict) THEN file.strict
    ELSE IF file.strict.exc = "ScannerError" /\ lenient THEN file.retry
    ELSE file.strict

\* the body of the loop of _read_files for the existing candidate i: the dict
\* to merge, or MergeError naming i
file_data(i, file, lenient) ==
    LET parsed == IF CandidateSuffix[i] \in {".yaml", ".yml"}
                  THEN _parse_yaml(file, lenient)
                  ELSE file.strict            \* json.loads(text)
    IN  IF ~Returned(parsed) THEN RaiseAt("MergeError", i)
        ELSE IF ~IsDict(or_empty(parsed.ret)) THEN RaiseAt("MergeError", i)
        ELSE Return(or_empty(parsed.ret))

\* the files layer keeps the file read first where two files set a key
merge_file_first_wins(merged, data) == deep_merge(data, merged)

\* merged = deep_merge(merged, data): the file read later is the overlay
merge_file(merged, data) == deep_merge(merged, data)

\* _read_files: for p in candidate_files, from candidate i on
RECURSIVE _read_files_from(_, _, _, _)
_read_files_from(i, files, lenient, merged) ==
    IF i > Len(CandidateSuffix) THEN Return(Dict(merged))
    ELSE IF ~files[i].exists THEN _read_files_from(i + 1, files, lenient, merged)
    ELSE LET data == file_data(i, files[i], lenient)
         IN  IF ~Returned(data) THEN data
             ELSE _read_files_from(i + 1, files, lenient,
                                  merge_file(merged, data.ret.map))
_read_files(files, lenient) == _read_files_from(1, files, lenient, EmptyMap)

\* k.split("."): cut at every "."
RECURSIVE split_dot_scan(_, _, _, _)
split_dot_scan(s, i, cur, out) ==
    IF i > Len(s) THEN Append(out, cur)
    ELSE IF s[i] = "." THEN split_dot_scan(s, i + 1, <<>>, Append(out, cur))
    ELSE split_dot_scan(s, i + 1, Append(cur, s[i]), out)
split_dot(s) == split_dot_scan(s, 1, <<>>, <<>>)
contains_dot(s) == \E i \in 1..Len(s) : s[i] = "."

\* cur = out; for part in parts[:-1]: cur = cur.setdefault(part, {});
\* cur[parts[-1]] = v      A value on the way that is not a dict raises.
RECURSIVE set_dotted(_, _, _)
set_dotted(m, parts, v) ==
    IF Len(parts) = 1
    THEN Return(Dict([k \in DOMAIN m \cup {parts[1]} |->
                        IF k = parts[1] THEN Scalar(v) ELSE m[k]]))
    ELSE LET part == Head(parts)
             child == IF part \in DOMAIN m THEN m[part] ELSE Dict(EmptyMap)
         IN  IF ~IsDict(child) THEN Raise("TypeError")
             ELSE LET below == set_dotted(child.map, Tail(parts), v)
                  IN  IF ~Returned(below) THEN below
                      ELSE Return(Dict([k \in DOMAIN m \cup {part} |->
                                          IF k = part THEN below.ret ELSE m[k]]))

\* A .env file: whether it exists and what dotenv_values does with it, the
\* sequence of its <<key, value>> pairs or an exception.
AbsentDotenv == [exists |-> FALSE, values |-> NotCalled]
DotenvWith(values) == [exists |-> TRUE, values |-> values]

\* the loop of _read_dotenv with a try around each key, as in _read_envvars:
\* a key whose handling raises is passed over
RECURSIVE dotenv_scan_skipping(_, _, _)
dotenv_scan_skipping(items, prefix, out) ==
    IF items = <<>> THEN Return(Dict(out))
    ELSE LET k == Head(items)[1]
             v == Head(items)[2]
             parts == split_dot(k)
             placed == IF startswith(k, prefix)
                       THEN LET nested == _envvar_to_nested(k, v, prefix)
                            IN  IF ~Returned(nested) THEN nested
                                ELSE Return(Dict(deep_merge(out, nested.ret.map)))
                       ELSE set_dotted(out, [i \in 1..Len(parts) |-> lower(parts[i])], v)
         IN  dotenv_scan_skipping(Tail(items), prefix,
                                  IF Returned(placed) THEN placed.ret.map ELSE out)

\* the loop of _read_dotenv over parsed.items(); an exception leaves the loop
RECURSIVE dotenv_scan(_, _, _)
dotenv_scan(items, prefix, out) ==
    IF items = <<>> THEN Return(Dict(out))
    ELSE LET k == Head(items)[1]
             v == Head(items)[2]
         IN  IF startswith(k, prefix)
             THEN LET nested == _envvar_to_nested(k, v, prefix)
                  IN  IF ~Returned(nested) THEN nested
                      ELSE dotenv_scan(Tail(items), prefix,
                                       deep_merge(out, nested.ret.map))
             ELSE IF contains_dot(k)
             THEN LET parts == split_dot(k)
                      placed == set_dotted(out, [i \in 1..Len(parts) |-> lower(parts[i])], v)
                  IN  IF ~Returned(placed) THEN placed
                      ELSE dotenv_scan(Tail(items), prefix, placed.ret.map)
             ELSE dotenv_scan(Tail(items), prefix,
                              [j \in DOMAIN out \cup {lower(k)} |->
                                  IF j = lower(k) THEN Scalar(v) ELSE out[j]])

\* _read_dotenv: try: ... except Exception: return {}
_read_dotenv(load_dotenv, dotenv, prefix) ==
    IF ~load_dotenv THEN Return(Dict(EmptyMap))
    ELSE IF ~dotenv.exists THEN Return(Dict(EmptyMap))
    ELSE LET tried == IF ~Returned(dotenv.values) THEN dotenv.values
                      ELSE dotenv_scan(dotenv.values.ret, prefix, EmptyMap)
         IN  IF Returned(tried) THEN tried ELSE Return(Dict(EmptyMap))

\* _read_secrets with the exception of the provider let through
_read_secrets_uncaught(outcome) ==
    IF ~Returned(outcome) THEN outcome
    ELSE IF ~IsDict(or_empty(outcome.ret)) THEN Return(Dict(EmptyMap))
    ELSE Return(or_empty(outcome.ret))

\* _read_secrets: outcome is what secrets_provider.get_secrets(self.env) did
_read_secrets(outcome) ==
    IF ~Returned(outcome) THEN Return(Dict(EmptyMap))
    ELSE IF ~IsDict(or_empty(outcome.ret)) THEN Return(Dict(EmptyMap))
    ELSE Return(or_empty(outcome.ret))

\* the scan of _read_envvars ended by the first variable that fails
RECURSIVE envvars_scan_stop(_, _, _)
envvars_scan_stop(items, prefix, out) ==
    IF items = <<>> THEN Return(Dict(out))
    ELSE LET k == Head(items)[1]
             v == Head(items)[2]
         IN  IF ~startswith(k, prefix) THEN envvars_scan_stop(Tail(items), prefix, out)
             ELSE LET nested == _envvar_to_nested(k, v, prefix)
                  IN  IF ~Returned(nested) THEN Return(Dict(out))
                      ELSE envvars_scan_stop(Tail(items), prefix,
                                             deep_merge(out, nested.ret.map))

\* _read_envvars: for k, v in os.environ.items(), a failing variable skipped
RECURSIVE envvars_scan(_, _, _)
envvars_scan(items, prefix, out) ==
    IF items = <<>> THEN Return(Dict(out))
    ELSE LET k == Head(items)[1]
             v == Head(items)[2]
         IN  IF ~startswith(k, prefix) THEN envvars_scan(Tail(items), prefix, out)
             ELSE LET nested == _envvar_to_nested(k, v, prefix)
                  IN  IF ~Returned(nested) THEN envvars_scan(Tail(items), prefix, out)
                      ELSE envvars_scan(Tail(items), prefix,
                                        deep_merge(out, nested.ret.map))
_read_envvars(environ, prefix) == envvars_scan(environ, prefix, EmptyMap)

\* the merge loop of load() with the environment variables merged before
\* the secrets
merge_layers_swapped(files, dotenv, secrets, envvars, overrides) ==
    deep_merge(deep_merge(deep_merge(deep_merge(deep_merge(
        EmptyMap, files), dotenv), envvars), secrets), overrides)

\* merged = {}; for layer in (files, dotenv, secrets, envvars, overrides):
\*     merged = deep_merge(merged, layer)
merge_layers(files, dotenv, secrets, envvars, overrides) ==
    deep_merge(deep_merge(deep_merge(deep_merge(deep_merge(
        EmptyMap, files), dotenv), secrets), envvars), overrides)

\* validate_model with the type descriptor of tests/test_core.py, AppSettings:
\* db is required and must be a dict; the instance holds the validated db.
validate_model(payload) ==
    IF KeyDb \in DOMAIN payload /\ IsDict(payload[KeyDb])
    THEN Return(Dict(KeyDb :> payload[KeyDb]))
    ELSE Raise("ValidationError")

NoLayers == [files |-> EmptyMap, dotenv |-> EmptyMap, secrets |-> EmptyMap,
             envvars |-> EmptyMap, overrides |-> EmptyMap]

\* load(overrides): what it did (out), the five layers it read and the mapping
\* it passed to validate_model.  An exception of a reader ends it at once.
load(files, lenient, load_dotenv, dotenv, secrets_outcome, environ, prefix, overrides) ==
    LET f == _read_files(files, lenient)
        d == _read_dotenv(load_dotenv, dotenv, prefix)
        s == _read_secrets(secrets_outcome)
        e == _read_envvars(environ, prefix)
        failed(out) == [out |-> out, layers |-> NoLayers, merged |-> NoResult]
    IN  IF ~Returned(f) THEN failed(f)
        ELSE IF ~Returned(d) THEN failed(d)
        ELSE IF ~Returned(s) THEN failed(s)
        ELSE IF ~Returned(e) THEN failed(e)
        ELSE LET layers == [files |-> f.ret.map, dotenv |-> d.ret.map,
                            secrets |-> s.ret.map, envvars |-> e.ret.map,
                            overrides |-> or_empty(overrides).map]
                 merged == merge_layers(layers.files, layers.dotenv, layers.secrets,
                                        layers.envvars, layers.overrides)
             IN  [out |-> validate_model(merged), layers |-> layers,
                  merged |-> Dict(merged)]

-----------------------------------------------------------------------------
(* secrets.py: CachedProvider *)

Envs == {"dev", "prod"}
KeyX == <<"x">>

\* The wrapped provider: a dummy returning {"x": env} of the backend's current
\* content, or failing: it raises, or returns something that is not a dict.
BackendModes == {"ok", "raise", "none"}
provider_get_secrets(env) ==
    CASE backendMode = "ok" -> Return(Dict(KeyX :> Scalar(<<env, backendVer>>)))
      [] backendMode = "raise" -> Raise("Exception")
      [] backendMode = "none" -> Return(Scalar("None"))

\* the freshness test with <= for <
cache_fresh_inclusive(ts, now, ttl) == ttl = 0 \/ (now - ts) <= ttl

\* if self.ttl == 0 or (now - ts) < self.ttl
cache_fresh(ts, now, ttl) == ttl = 0 \/ (now - ts) < ttl

\* the fetch without the isinstance test
fetched_value_uncoerced(outcome) ==
    IF Returned(outcome) THEN outcome.ret ELSE Dict(EmptyMap)

\* try: value = provider.get_secrets(env); not a dict -> {}  except: value = {}
fetched_value(outcome) ==
    IF Returned(outcome)
    THEN IF IsDict(outcome.ret) THEN outcome.ret ELSE Dict(EmptyMap)
    ELSE Dict(EmptyMap)

-----------------------------------------------------------------------------
(* SpecKey *)

\* The characters of the keys tried: an upper-case letter, a lower-case
\* letter and the underscore.  Every string of at most MaxKeyLen of them
\* follows the prefix.
KeyChars == {"D", "b", "_"}
MaxKeyLen == 5

RECURSIVE StringsOfLen(_)
StringsOfLen(n) ==
    IF n = 0 THEN {<<>>}
    ELSE {Append(s, c) : s \in StringsOfLen(n - 1), c \in KeyChars}
KeyStrings == UNION {StringsOfLen(n) : n \in 0..MaxKeyLen}

KeyInit ==
    /\ kPrefix \in {DEFAULT_PREFIX, <<"D", "_">>}
    /\ kKey \in {kPrefix \o r : r \in KeyStrings} \cup KeyStrings
    /\ kValue \in {"x", "Y z"}
    /\ kOut = NotCalled
    /\ kPc = "call"

CallEnvvarToNested ==
    /\ kPc = "call"
    /\ kOut' = _envvar_to_nested(kKey, kValue, kPrefix)
    /\ kPc' = "done"
    /\ UNCHANGED <<kKey, kValue, kPrefix, mergeVars, secretVars, getterVars, loadVars, yamlVars, schemaVars, heapVars, lifeVars, dotVars, repVars, callerVars, assocVars>>

KeyNext == CallEnvvarToNested

SpecKeyInit == KeyInit /\ MergeIdle /\ SecretsIdle /\ GetterIdle /\ LoadIdle /\ YamlIdle /\ SchemaIdle /\ HeapIdle /\ LifeIdle /\ DotIdle /\ RepeatIdle /\ CallersIdle /\ AssocIdle
SpecKey == SpecKeyInit /\ [][KeyNext]_vars

-----------------------------------------------------------------------------
(* SpecSecrets *)

TtlValues == {-1, 0, 1, 2}
MaxTime == 3        \* the clock stops advancing here
MaxVer == 1         \* the backend content changes at most this often
MaxCalls == 3       \* get_secrets calls made in one behaviour

SecretsInit ==
    /\ cpTtl \in TtlValues
    /\ cpCache = EmptyMap
    /\ cpRet = NotCalled
    /\ cpEnv = ""
    /\ cpSeq = 0
    /\ clock = 0
    /\ backendMode \in BackendModes
    /\ backendVer = 0
    /\ backendCalls = 0

\* CachedProvider.get_secrets(env).  The backend call takes d time units.
GetSecrets(env) ==
    /\ cpSeq < MaxCalls
    /\ cpSeq' = cpSeq + 1
    /\ cpEnv' = env
    /\ LET now == clock
       IN  IF env \in DOMAIN cpCache /\ cache_fresh(cpCache[env].ts, now, cpTtl)
           THEN /\ cpRet' = Return(cpCache[env].value)
                /\ UNCHANGED <<cpCache, backendCalls, clock>>
           ELSE LET value == fetched_value(provider_get_secrets(env))
                IN  /\ backendCalls' = backendCalls + 1
                    /\ \E d \in 0..1 : clock' = IF clock + d <= MaxTime
                                                THEN clock + d ELSE clock
                    /\ cpCache' = [e \in DOMAIN cpCache \cup {env} |->
                                      IF e = env THEN [ts |-> now, value |-> value]
                                      ELSE cpCache[e]]
                    /\ cpRet' = Return(value)
    /\ UNCHANGED <<cpTtl, backendMode, backendVer, mergeVars, keyVars, getterVars, loadVars, yamlVars, schemaVars, heapVars, lifeVars, dotVars, repVars, callerVars, assocVars>>

\* time passes
Tick ==
    /\ clock < MaxTime
    /\ clock' = clock + 1
    /\ UNCHANGED <<cpTtl, cpCache, cpRet, cpEnv, cpSeq,
                   backendMode, backendVer, backendCalls, mergeVars, keyVars, getterVars, loadVars, yamlVars, schemaVars, heapVars, lifeVars, dotVars, repVars, callerVars, assocVars>>

\* the secret store's content changes
BackendChange ==
    /\ backendVer < MaxVer
    /\ backendVer' = backendVer + 1
    /\ UNCHANGED <<cpTtl, cpCache, cpRet, cpEnv, cpSeq, clock,
                   backendMode, backendCalls, mergeVars, keyVars, getterVars, loadVars, yamlVars, schemaVars, heapVars, lifeVars, dotVars, repVars, callerVars, assocVars>>

\* the secret store starts or stops failing
BackendSetMode ==
    /\ \E m \in BackendModes \ {backendMode} : backendMode' = m
    /\ UNCHANGED <<cpTtl, cpCache, cpRet, cpEnv, cpSeq, clock,
                   backendVer, backendCalls, mergeVars, keyVars, getterVars, loadVars, yamlVars, schemaVars, heapVars, lifeVars, dotVars, repVars, callerVars, assocVars>>

SecretsNext ==
    \/ \E env \in Envs : GetSecrets(env)
    \/ Tick
    \/ BackendChange
    \/ BackendSetMode

SpecSecretsInit == SecretsInit /\ MergeIdle /\ KeyIdle /\ GetterIdle /\ LoadIdle /\ YamlIdle /\ SchemaIdle /\ HeapIdle /\ LifeIdle /\ DotIdle /\ RepeatIdle /\ CallersIdle /\ AssocIdle
SpecSecrets == SpecSecretsInit /\ [][SecretsNext]_vars

-----------------------------------------------------------------------------
(* SpecGetter: get_cached_loader() returns _get, load() under                *)
(* functools.lru_cache.  A call looks the entry up; on a miss it runs load() *)
(* with no lock held, and when load() returns it stores the result unless an *)
(* entry has appeared meanwhile, and returns its own result.  An exception   *)
(* of load() propagates and stores nothing.                                  *)

NumThreads == 2
MaxWorldVer == 1    \* the files and environment change at most this often
MaxClears == 2      \* cache_clear() calls in one behaviour
MaxLoads == 3       \* load() calls in one behaviour

Threads == 1..NumThreads
Generations == 0..MaxClears

GetterInit ==
    /\ gCache = NoInstance
    /\ tPc = [t \in Threads |-> "idle"]
    /\ tRes = [t \in Threads |-> NotCalled]
    /\ tRet = [t \in Threads |-> NotCalled]
    /\ tGen = [t \in Threads |-> 0]
    /\ worldVer = 0
    /\ worldState \in {"ok", "malformed", "invalid"}
    /\ gen = 0
    /\ nLoads = 0
    /\ genLoads = [g \in Generations |-> 0]
    /\ genRets = [g \in Generations |-> {}]

\* a lookup that never finds the entry
lru_hit_never(cached) == FALSE

\* lru_cache before the call: is there an entry for the key ()
lru_hit(cached) == cached # NoInstance

\* _get(): the lookup.  A hit returns the cached instance; a miss enters load().
GetCall(t) ==
    /\ tPc[t] = "idle"
    /\ tGen' = [tGen EXCEPT ![t] = gen]
    /\ IF lru_hit(gCache)
       THEN /\ tRet' = [tRet EXCEPT ![t] = Return(gCache)]
            /\ genRets' = [genRets EXCEPT ![gen] = @ \cup {gCache.id}]
            /\ UNCHANGED <<tPc, nLoads>>
       ELSE /\ nLoads < MaxLoads
            /\ nLoads' = nLoads + 1
            /\ tPc' = [tPc EXCEPT ![t] = "loading"]
            /\ UNCHANGED <<tRet, genRets>>
    /\ UNCHANGED <<gCache, tRes, worldVer, worldState, gen, genLoads,
                   mergeVars, keyVars, secretVars, loadVars, yamlVars, schemaVars, heapVars, lifeVars, dotVars, repVars, callerVars, assocVars>>

\* load() runs in thread t: it reads the files and the environment as they
\* are and returns a new instance, or raises.
GetLoad(t) ==
    /\ tPc[t] = "loading"
    /\ tPc' = [tPc EXCEPT ![t] = "loaded"]
    /\ tRes' = [tRes EXCEPT ![t] =
            CASE worldState = "ok" -> Return(Instance(nLoads, worldVer))
              [] worldState = "malformed" -> Raise("MergeError")
              [] worldState = "invalid" -> Raise("ValidationError")]
    /\ genLoads' = IF worldState = "ok"
                   THEN [genLoads EXCEPT ![tGen[t]] = @ + 1] ELSE genLoads
    /\ UNCHANGED <<gCache, tRet, tGen, worldVer, worldState, gen, nLoads, genRets,
                   mergeVars, keyVars, secretVars, loadVars, yamlVars, schemaVars, heapVars, lifeVars, dotVars, repVars, callerVars, assocVars>>

\* lru_cache after the call: "if key in cache: pass  else: cache[key] = result"
lru_store(cached, result) == IF cached # NoInstance THEN cached ELSE result

\* load() has returned or raised in thread t: lru_cache stores a returned
\* value, _get() returns or raises what load() did.
GetReturn(t) ==
    /\ tPc[t] = "loaded"
    /\ tPc' = [tPc EXCEPT ![t] = "idle"]
    /\ tRet' = [tRet EXCEPT ![t] = tRes[t]]
    /\ tRes' = [tRes EXCEPT ![t] = NotCalled]
    /\ IF Returned(tRes[t])
       THEN /\ gCache' = lru_store(gCache, tRes[t].ret)
            /\ genRets' = [genRets EXCEPT ![tGen[t]] = @ \cup {tRes[t].ret.id}]
       ELSE UNCHANGED <<gCache, genRets>>
    /\ UNCHANGED <<tGen, worldVer, worldState, gen, nLoads, genLoads,
                   mergeVars, keyVars, secretVars, loadVars, yamlVars, schemaVars, heapVars, lifeVars, dotVars, repVars, callerVars, assocVars>>

\* _get.cache_clear(), by a thread that is not inside _get()
CacheClear(t) ==
    /\ tPc[t] = "idle"
    /\ gen < MaxClears
    /\ gen' = gen + 1
    /\ gCache' = NoInstance
    /\ UNCHANGED <<tPc, tRes, tRet, tGen, worldVer, worldState, nLoads,
                   genLoads, genRets, mergeVars, keyVars, secretVars, loadVars, yamlVars, schemaVars, heapVars, lifeVars, dotVars, repVars, callerVars, assocVars>>

\* a file or an environment variable changes
WorldChange ==
    /\ worldVer < MaxWorldVer
    /\ worldVer' = worldVer + 1
    /\ worldState' \in {"ok", "malformed", "invalid"}
    /\ UNCHANGED <<gCache, tPc, tRes, tRet, tGen, gen, nLoads, genLoads, genRets,
                   mergeVars, keyVars, secretVars, loadVars, yamlVars, schemaVars, heapVars, lifeVars, dotVars, repVars, callerVars, assocVars>>

GetterStep(t) == GetCall(t) \/ GetLoad(t) \/ GetReturn(t) \/ CacheClear(t)

GetterNext == (\E t \in Threads : GetterStep(t)) \/ WorldChange

\* the getter used by one caller only
SingleNext == GetterStep(1) \/ WorldChange

SpecGetterInit == GetterInit /\ MergeIdle /\ KeyIdle /\ SecretsIdle /\ LoadIdle /\ YamlIdle /\ SchemaIdle /\ HeapIdle /\ LifeIdle /\ DotIdle /\ RepeatIdle /\ CallersIdle /\ AssocIdle
SpecGetter == SpecGetterInit /\ [][GetterNext]_vars
SpecSingle == SpecGetterInit /\ [][SingleNext]_vars

-----------------------------------------------------------------------------
(* SpecLoad: the files, the .env file, the secrets provider, the environment *)
(* and the overrides are drawn from the cases below, then load() runs.       *)

MaxFiles == 2       \* existing candidate files, when the files are varied
MaxEnvVars == 3     \* environment variables, when the environment is varied
MaxDotenvKeys == 2  \* keys of the .env file, when the .env file is varied

DictFile(m) == FileWith(Return(Dict(m)), NotCalled)
DbHost(x) == KeyDb :> Dict(KeyHost :> Scalar(x))
DbIs(x) == KeyDb :> Scalar(x)

APP_DB == DEFAULT_PREFIX \o <<"D", "B">>
APP_DB__HOST == DEFAULT_PREFIX \o <<"D", "B", "_", "_", "H", "O", "S", "T">>
APP_ == DEFAULT_PREFIX
APP___ == DEFAULT_PREFIX \o <<"_", "_">>
HOME == <<"H", "O", "M", "E">>
DB_DOT_HOST == <<"D", "B", ".", "H", "O", "S", "T">>
DB == <<"D", "B">>

\* what a file may hold: a mapping, a sequence, an empty sequence, nothing,
\* text the scanner rejects (with and without a successful lenient retry),
\* text that fails to parse otherwise
YamlChoices(x) ==
    {DictFile(DbHost(x)), DictFile(DbIs(x)),
     FileWith(Return(Scalar("[1]")), NotCalled),
     FileWith(Return(Scalar("[]")), NotCalled),
     FileWith(Return(Scalar("None")), NotCalled),
     FileWith(Raise("ScannerError"), Raise("ScannerError")),
     FileWith(Raise("ScannerError"), Return(Dict(DbHost(x)))),
     FileWith(Raise("ParserError"), NotCalled)}
JsonChoices(x) ==
    {DictFile(DbHost(x)), DictFile(DbIs(x)),
     FileWith(Return(Scalar("[1]")), NotCalled),
     FileWith(Return(Scalar("[]")), NotCalled),
     FileWith(Return(Scalar("None")), NotCalled),
     FileWith(Raise("JSONDecodeError"), NotCalled)}
FileChoices(i) ==
    LET x == IF i <= 3 THEN "f1" ELSE "f2"
    IN  IF CandidateSuffix[i] = ".json" THEN JsonChoices(x) ELSE YamlChoices(x)

\* every choice of at most MaxFiles existing candidates
FilesOn(S) ==
    {[i \in Candidates |-> IF i \in S THEN g[i] ELSE AbsentFile] :
        g \in {h \in [S -> UNION {FileChoices(i) : i \in S}] :
                  \A i \in S : h[i] \in FileChoices(i)}}
VariedFiles ==
    UNION {FilesOn(S) : S \in {T \in SUBSET Candidates : Cardinality(T) <= MaxFiles}}

\* sequences of at most n distinct elements of S
RECURSIVE DistinctSeqs(_, _)
DistinctSeqs(S, n) ==
    IF n = 0 THEN {<<>>}
    ELSE {<<>>} \cup UNION {{<<x>> \o t : t \in DistinctSeqs(S \ {x}, n - 1)} : x \in S}

EnvVarChoices ==
    {<<APP_DB, "e1">>, <<APP_DB__HOST, "e2">>, <<APP_, "e3">>, <<APP___, "e4">>,
     <<HOME, "e5">>}
DotenvKeyChoices ==
    {<<APP_DB__HOST, "d1">>, <<DB_DOT_HOST, "d2">>, <<DB, "d3">>, <<HOME, "d4">>,
     <<APP_, "d5">>}

PlainFiles(base, envfile) ==
    [i \in Candidates |-> IF i = 1 THEN base ELSE IF i = 4 THEN envfile ELSE AbsentFile]

\* every layer takes one of a few contents, failures among them
LayersVaried ==
    /\ ldFiles \in {PlainFiles(b, e) :
                        b \in {AbsentFile, DictFile(DbHost("f1")), DictFile(DbIs("f1"))},
                        e \in {AbsentFile, DictFile(DbHost("f2"))}}
    /\ ldLoadDotenv \in BOOLEAN
    /\ ldDotenv \in {AbsentDotenv, DotenvWith(Raise("OSError")),
                      DotenvWith(Return(<< <<APP_DB__HOST, "dot">> >>)),
                      DotenvWith(Return(<< <<DB_DOT_HOST, "dot">> >>)),
                      DotenvWith(Return(<< <<APP_DB__HOST, "dot">>, <<APP_, "dot">> >>))}
    /\ ldSecrets \in {Return(Dict(EmptyMap)), Return(Dict(DbHost("sec"))),
                       Return(Dict(DbIs("sec"))), Return(Scalar("None")),
                       Return(Scalar("[1]")), Raise("Exception")}
    /\ osEnviron \in {<<>>, << <<APP_DB__HOST, "env">> >>, << <<APP_DB, "env">> >>,
                       << <<APP_, "env">>, <<APP_DB__HOST, "env">> >>}
    /\ ldOverrides \in {Scalar("None"), Dict(DbHost("ovr")), Dict(DbIs("ovr")),
                         Dict(KeyDb :> Dict(KeyHost :> Dict(EmptyMap)))}

\* the candidate files are varied, the other layers are plain
FilesVaried ==
    /\ ldFiles \in VariedFiles
    /\ ldLoadDotenv = TRUE
    /\ ldDotenv = AbsentDotenv
    /\ ldSecrets = Return(Dict(DbHost("sec")))
    /\ osEnviron = <<>>
    /\ ldOverrides = Scalar("None")

\* the environment variables and their order are varied
EnvironVaried ==
    /\ ldFiles = PlainFiles(DictFile(DbHost("f1")), AbsentFile)
    /\ ldLoadDotenv = TRUE
    /\ ldDotenv = AbsentDotenv
    /\ ldSecrets = Return(Dict(EmptyMap))
    /\ osEnviron \in DistinctSeqs(EnvVarChoices, MaxEnvVars)
    /\ ldOverrides = Scalar("None")

\* the keys of the .env file and their order are varied
DotenvVaried ==
    /\ ldFiles = PlainFiles(DictFile(DbHost("f1")), AbsentFile)
    /\ ldLoadDotenv = TRUE
    /\ ldDotenv \in {DotenvWith(Return(kv)) :
                        kv \in DistinctSeqs(DotenvKeyChoices, MaxDotenvKeys)}
    /\ ldSecrets = Return(Dict(EmptyMap))
    /\ osEnviron = <<>>
    /\ ldOverrides = Scalar("None")

LoadInit ==
    /\ ldLenient \in BOOLEAN
    /\ (LayersVaried \/ FilesVaried \/ EnvironVaried \/ DotenvVaried)
    /\ ldOut = NotCalled
    /\ ldLayers = NoLayers
    /\ ldMerged = NoResult
    /\ ldPc = "call"

\* loader.load(overrides), envvar_prefix left at its default
Load ==
    /\ ldPc = "call"
    /\ LET did == load(ldFiles, ldLenient, ldLoadDotenv, ldDotenv, ldSecrets,
                       osEnviron, DEFAULT_PREFIX, ldOverrides)
       IN  /\ ldOut' = did.out
           /\ ldLayers' = did.layers
           /\ ldMerged' = did.merged
    /\ ldPc' = "done"
    /\ UNCHANGED <<ldFiles, ldLenient, ldLoadDotenv, ldDotenv, ldSecrets, osEnviron,
                   ldOverrides, mergeVars, keyVars, secretVars, getterVars, yamlVars, schemaVars, heapVars, lifeVars, dotVars, repVars, callerVars, assocVars>>

LoadNext == Load

SpecLoadInit == LoadInit /\ MergeIdle /\ KeyIdle /\ SecretsIdle /\ GetterIdle /\ YamlIdle /\ SchemaIdle /\ HeapIdle /\ LifeIdle /\ DotIdle /\ RepeatIdle /\ CallersIdle /\ AssocIdle
SpecLoad == SpecLoadInit /\ [][LoadNext]_vars

-----------------------------------------------------------------------------
(* SpecMerge *)

MergeInit ==
    /\ mA \in Mappings
    /\ mB \in Mappings
    /\ mOut = NoResult
    /\ mPc = "call"

CallDeepMerge ==
    /\ mPc = "call"
    /\ mOut' = Dict(deep_merge(mA, mB))
    /\ mPc' = "done"
    /\ UNCHANGED <<mA, mB, keyVars, secretVars, getterVars, loadVars, yamlVars, schemaVars, heapVars, lifeVars, dotVars, repVars, callerVars, assocVars>>

MergeNext == CallDeepMerge

SpecMergeInit == MergeInit /\ KeyIdle /\ SecretsIdle /\ GetterIdle /\ LoadIdle /\ YamlIdle /\ SchemaIdle /\ HeapIdle /\ LifeIdle /\ DotIdle /\ RepeatIdle /\ CallersIdle /\ AssocIdle
SpecMerge == SpecMergeInit /\ [][MergeNext]_vars

-----------------------------------------------------------------------------
(* C2: deep_merge(A, B) has exactly the keys of A and B together; a key of  *)
(* B holds the recursive merge of the two values when the key is in A and   *)
(* both values are mappings, and otherwise B's value as a whole; a key only *)
(* in A keeps A's value.                                                    *)

\* The same statement about the nested mappings x and y and the result r,
\* unfolded along every key path without using deep_merge.
RECURSIVE MergedAs(_, _, _)
MergedAs(x, y, r) ==
    /\ DOMAIN r = DOMAIN x \cup DOMAIN y
    /\ \A k \in DOMAIN y :
        IF k \in DOMAIN x /\ IsDict(x[k]) /\ IsDict(y[k])
        THEN IsDict(r[k]) /\ MergedAs(x[k].map, y[k].map, r[k].map)
        ELSE r[k] = y[k]
    /\ \A k \in DOMAIN x \ DOMAIN y : r[k] = x[k]

C2_DeepMergeContract ==
    mPc = "done" => IsDict(mOut) /\ MergedAs(mA, mB, mOut.map)

\* a call where the recursion happens below a key of both, joining the keys
\* of the two nested mappings, and a key of A alone is kept
C2_Witness ==
    /\ mPc = "done"
    /\ KeyDb \in DOMAIN mA /\ KeyDb \in DOMAIN mB
    /\ IsDict(mA[KeyDb]) /\ IsDict(mB[KeyDb])
    /\ DOMAIN mA[KeyDb].map = {KeyHost}
    /\ DOMAIN mB[KeyDb].map = {KeyDb}
    /\ KeyHost \in DOMAIN mA /\ KeyHost \notin DOMAIN mB
    /\ DOMAIN mOut.map[KeyDb].map = {KeyDb, KeyHost}

-----------------------------------------------------------------------------
(* C8: for a key that starts with the prefix and has a non-empty segment    *)
(* after it, _envvar_to_nested returns the chain of one-key mappings along  *)
(* the lower-cased non-empty segments of the remainder split on "__", with  *)
(* the value unchanged at the leaf.                                         *)

\* The segments, stated on positions instead of by scanning: a "__" starts at
\* i when both characters are underscores and an even number of underscores
\* lies directly before i (an odd one would pair i with i - 1).
UnderscoresBefore(s, i) ==
    LET stops == {j \in 1..(i - 1) : s[j] # "_"}
    IN  IF stops = {} THEN i - 1
        ELSE (i - 1) - (CHOOSE j \in stops : \A l \in stops : l <= j)
SeparatorStarts(s) ==
    {i \in 1..(Len(s) - 1) :
        s[i] = "_" /\ s[i + 1] = "_" /\ UnderscoresBefore(s, i) % 2 = 0}
InSegment(s, i) == i \notin SeparatorStarts(s) /\ (i - 1) \notin SeparatorStarts(s)
\* <<lo, hi>> of each maximal stretch of characters outside the separators
SegmentSpans(s) ==
    {sp \in (1..Len(s)) \X (1..Len(s)) :
        /\ sp[1] <= sp[2]
        /\ \A i \in sp[1]..sp[2] : InSegment(s, i)
        /\ (sp[1] = 1 \/ ~InSegment(s, sp[1] - 1))
        /\ (sp[2] = Len(s) \/ ~InSegment(s, sp[2] + 1))}
RECURSIVE SpansInOrder(_)
SpansInOrder(spans) ==
    IF spans = {} THEN <<>>
    ELSE LET first == CHOOSE sp \in spans : \A o \in spans : sp[1] <= o[1]
         IN  <<first>> \o SpansInOrder(spans \ {first})
ExpectedPath(s) ==
    LET spans == SpansInOrder(SegmentSpans(s))
    IN  [n \in 1..Len(spans) |-> lower(SubSeq(s, spans[n][1], spans[n][2]))]

\* m is a chain: one key per level along path, leaf at the end
RECURSIVE IsChainAlong(_, _, _)
IsChainAlong(m, path, leaf) ==
    /\ path # <<>>
    /\ DOMAIN m = {Head(path)}
    /\ IF Len(path) = 1 THEN m[Head(path)] = Scalar(leaf)
       ELSE /\ IsDict(m[Head(path)])
            /\ IsChainAlong(m[Head(path)].map, Tail(path), leaf)

KeyRemainder == SubSeq(kKey, Len(kPrefix) + 1, Len(kKey))

C8_EnvvarToNested ==
    (kPc = "done" /\ startswith(kKey, kPrefix) /\ ExpectedPath(KeyRemainder) # <<>>)
        => /\ Returned(kOut)
           /\ IsDict(kOut.ret)
           /\ IsChainAlong(kOut.ret.map, ExpectedPath(KeyRemainder), kValue)

\* APP_D___b: three underscores, the third stays in the second segment
C8_Witness ==
    /\ kPc = "done"
    /\ kKey = DEFAULT_PREFIX \o <<"D", "_", "_", "_", "b">>
    /\ kOut = Return(Dict(<<"d">> :> Dict(<<"_", "b">> :> Scalar(kValue))))

-----------------------------------------------------------------------------
(* C9: CachedProvider.get_secrets(env) returns the cached value without     *)
(* calling the wrapped provider when an entry exists for env and            *)
(* (ttl = 0 or now - timestamp < ttl); otherwise it calls the provider      *)
(* exactly once, stores (now, value) for env and returns value.             *)

\* the step is a get_secrets(e) call
IsGetSecretsCall(e) == cpSeq' = cpSeq + 1 /\ cpEnv' = e
EntryServes(e) ==
    /\ e \in DOMAIN cpCache
    /\ (cpTtl = 0 \/ clock - cpCache[e].ts < cpTtl)

C9_Step ==
    \A e \in Envs :
        IsGetSecretsCall(e) =>
            IF EntryServes(e)
            THEN /\ cpRet' = Return(cpCache[e].value)
                 /\ backendCalls' = backendCalls
                 /\ cpCache' = cpCache
            ELSE /\ backendCalls' = backendCalls + 1
                 /\ Returned(cpRet')
                 /\ e \in DOMAIN cpCache'
                 /\ cpCache'[e] = [ts |-> clock, value |-> cpRet'.ret]
                 /\ \A o \in DOMAIN cpCache \ {e} :
                        o \in DOMAIN cpCache' /\ cpCache'[o] = cpCache[o]

-----------------------------------------------------------------------------
(* C10: get_secrets never raises for a backend failure: when the wrapped    *)
(* provider raises or returns a value that is not a mapping, get_secrets    *)
(* returns an empty mapping and stores it as the cache entry for env.       *)

C10_Step ==
    \A e \in Envs :
        IsGetSecretsCall(e) =>
            /\ Returned(cpRet')
            /\ (~EntryServes(e) /\ backendMode # "ok") =>
                    /\ cpRet' = Return(Dict(EmptyMap))
                    /\ e \in DOMAIN cpCache'
                    /\ cpCache'[e] = [ts |-> clock, value |-> Dict(EmptyMap)]

C10_FailureGivesEmpty == [][C10_Step]_vars

\* a failed fetch was stored, and the next call was served the stored {}
\* although the backend works again
C10_Witness ==
    /\ cpSeq = 2 /\ backendCalls = 1 /\ backendMode = "ok"
    /\ "dev" \in DOMAIN cpCache
    /\ cpCache["dev"].value = Dict(EmptyMap)
    /\ cpEnv = "dev"
    /\ cpRet = Return(Dict(EmptyMap))

-----------------------------------------------------------------------------
(* C3: when several callers invoke the cached getter concurrently while no  *)
(* value is cached, load() runs at most once for that cache generation and  *)
(* all those callers receive the same configuration instance.               *)

C3_SingleFlight ==
    \A g \in Generations :
        /\ genLoads[g] <= 1
        /\ Cardinality(genRets[g]) <= 1

-----------------------------------------------------------------------------
(* C4: with a single caller, the first call performs load() and caches its  *)
(* result; every later call returns that cached instance without calling    *)
(* load() again, whatever has changed in the files and the environment,     *)
(* until cache_clear(); a call on an empty cache performs one new load().   *)

C4_Step ==
    \* a call while a value is cached returns it and loads nothing
    /\ (tPc[1] = "idle" /\ gCache # NoInstance /\ gen' = gen
            /\ (tRet'[1] # tRet[1] \/ nLoads' # nLoads \/ tPc'[1] # "idle"))
        => /\ tRet'[1] = Return(gCache)
           /\ nLoads' = nLoads /\ tPc'[1] = "idle" /\ gCache' = gCache
    \* a load() that returns a value leaves that value cached
    /\ (tPc[1] = "loaded" /\ tPc'[1] = "idle" /\ Returned(tRes[1]))
        => gCache' = tRes[1].ret /\ tRet'[1] = Return(tRes[1].ret)
    \* load() is entered only by a call on an empty cache, once per call
    /\ nLoads' # nLoads
        => /\ gCache = NoInstance /\ tPc[1] = "idle" /\ tPc'[1] = "loading"
           /\ nLoads' = nLoads + 1
    \* a cached value is dropped by cache_clear() alone, never replaced
    /\ (gCache # NoInstance /\ gCache' # gCache)
        => gen' = gen + 1 /\ gCache' = NoInstance

C4_CachedUntilCleared == [][C4_Step]_vars

\* the caller was just handed the instance of the first load although the
\* files have changed since; after a cache_clear() a second load has run
C4_Witness ==
    /\ tPc[1] = "idle"
    /\ gen = 1 /\ nLoads = 2
    /\ gCache = Instance(2, 0) /\ worldVer = 1
    /\ tRet[1] = Return(gCache)
    /\ genRets[0] = {1} /\ genRets[1] = {2}

-----------------------------------------------------------------------------
(* Key paths of the layers of load() *)

Absent == Scalar("<absent>")
RECURSIVE ValueAt(_, _)
ValueAt(m, path) ==
    IF Head(path) \notin DOMAIN m THEN Absent
    ELSE IF Len(path) = 1 THEN m[Head(path)]
    ELSE IF IsDict(m[Head(path)]) THEN ValueAt(m[Head(path)].map, Tail(path))
    ELSE Absent
SetsScalar(m, path) == ValueAt(m, path) # Absent /\ ~IsDict(ValueAt(m, path))
SetsMapping(m, path) == ValueAt(m, path) # Absent /\ IsDict(ValueAt(m, path))
ScalarAbove(m, path) ==
    \E n \in 1..(Len(path) - 1) : SetsScalar(m, SubSeq(path, 1, n))

LoadPaths ==
    {<<k>> : k \in TreeKeys} \cup {<<k, l>> : k \in TreeKeys, l \in TreeKeys}
\* the layers in the order of precedence, lowest first
LayerSeq == <<ldLayers.files, ldLayers.dotenv, ldLayers.secrets,
              ldLayers.envvars, ldLayers.overrides>>
ScalarSetters(path) == {i \in 1..5 : SetsScalar(LayerSeq[i], path)}
Highest(S) == CHOOSE i \in S : \A j \in S : j <= i
Merged == ldPc = "done" /\ IsDict(ldMerged)

-----------------------------------------------------------------------------
(* C1: load() merges the layers in the order files < dotenv < secrets <     *)
(* environment variables < overrides: a key path that two or more layers    *)
(* set to a non-mapping value holds, in the mapping passed to validation,   *)
(* the value of the highest of these layers, provided no higher layer sets  *)
(* the path to a mapping or a proper prefix of it to a non-mapping value.   *)

C1_Precedence ==
    Merged =>
        \A path \in LoadPaths :
            Cardinality(ScalarSetters(path)) >= 2 =>
                LET top == Highest(ScalarSetters(path))
                IN  (\A j \in (top + 1)..5 :
                        /\ ~SetsMapping(LayerSeq[j], path)
                        /\ ~ScalarAbove(LayerSeq[j], path))
                    => ValueAt(ldMerged.map, path) = ValueAt(LayerSeq[top], path)

\* C1 as first stated: the value of the highest layer that sets the path to
\* a non-mapping value, whatever the other layers contain
C1_PrecedenceWhateverElse ==
    Merged =>
        \A path \in LoadPaths :
            Cardinality(ScalarSetters(path)) >= 2 =>
                ValueAt(ldMerged.map, path) =
                    ValueAt(LayerSeq[Highest(ScalarSetters(path))], path)

\* files, .env and secrets set db.host and so does APP_DB__HOST, which wins
C1_Witness ==
    /\ Merged
    /\ ScalarSetters(<<KeyDb, KeyHost>>) = {1, 2, 3, 4}
    /\ ldLayers.overrides = EmptyMap
    /\ ldMerged = Dict(DbHost("env"))
    /\ Returned(ldOut)

-----------------------------------------------------------------------------
(* C5: load() ends with a validated configuration, with a MergeError of the *)
(* files layer or with a ValidationError; a failing .env read, a raising    *)
(* or non-mapping secrets provider and an environment variable that fails   *)
(* translation contribute nothing and do not abort it.                      *)

FailsTranslation(kv) ==
    startswith(kv[1], DEFAULT_PREFIX)
        /\ \A i \in (Len(DEFAULT_PREFIX) + 1)..Len(kv[1]) : kv[1][i] = "_"
DotenvFails ==
    /\ ldLoadDotenv /\ ldDotenv.exists
    /\ \/ ~Returned(ldDotenv.values)
       \/ \E n \in 1..Len(ldDotenv.values.ret) : FailsTranslation(ldDotenv.values.ret[n])
SecretsFails == ~Returned(ldSecrets) \/ ~IsDict(ldSecrets.ret)
EnvironWithoutFailures == SelectSeq(osEnviron, LAMBDA kv : ~FailsTranslation(kv))
EveryFileIsAMapping ==
    \A i \in Candidates :
        ldFiles[i].exists => Returned(ldFiles[i].strict) /\ IsDict(ldFiles[i].strict.ret)

C5_LoadOutcomes ==
    ldPc = "done" =>
        /\ ldOut.exc \in {"none", "MergeError", "ValidationError"}
        /\ ldOut.exc = "MergeError" => ~EveryFileIsAMapping
        /\ ldOut.exc = "ValidationError" => Merged /\ ~Returned(validate_model(ldMerged.map))
        /\ ldOut.exc = "none" => Merged /\ ldOut = validate_model(ldMerged.map)
        /\ ldOut.exc # "MergeError" =>
              /\ DotenvFails => ldLayers.dotenv = EmptyMap
              /\ SecretsFails => ldLayers.secrets = EmptyMap
              /\ ldLayers.envvars =
                    _read_envvars(EnvironWithoutFailures, DEFAULT_PREFIX).ret.map

\* the .env file has a key that fails, the provider raises, a variable fails
\* translation, and load() returns the configuration of the file alone
C5_Witness ==
    /\ ldPc = "done"
    /\ DotenvFails /\ Returned(ldDotenv.values)
    /\ ~Returned(ldSecrets)
    /\ \E n \in 1..Len(osEnviron) : FailsTranslation(osEnviron[n])
    /\ ldLayers.envvars = DbHost("env")
    /\ ldLayers.overrides = EmptyMap
    /\ ldOut = Return(Dict(DbHost("env")))

-----------------------------------------------------------------------------
(* C6: for every existing candidate file whose parsed top-level value is    *)
(* not a mapping, or whose content fails to parse, load() raises MergeError *)
(* naming that file, and returns no configuration.                          *)

\* what parsing the file ends with, the lenient retry included
ParseEndsWith(i) ==
    IF /\ CandidateSuffix[i] # ".json" /\ ldLenient
       /\ ldFiles[i].strict.exc = "ScannerError"
    THEN ldFiles[i].retry ELSE ldFiles[i].strict
\* An empty document (None) is taken for the empty mapping here.
Offends(i) ==
    /\ ldFiles[i].exists
    /\ \/ ~Returned(ParseEndsWith(i))
       \/ ~IsDict(ParseEndsWith(i).ret) /\ ParseEndsWith(i).ret # Scalar("None")
C6_BadFileRaises ==
    ldPc = "done" =>
        \A i \in Candidates :
            Offends(i) =>
                /\ ldOut.exc = "MergeError"
                /\ (\A j \in 1..(i - 1) : ~Offends(j)) => ldOut.at = i

-----------------------------------------------------------------------------
(* C7: in the scan of the environment a prefixed variable whose translation *)
(* fails is skipped alone: the scan does not raise and every other          *)
(* variable with the prefix is applied, in whatever order they are visited. *)

\* the translations of the variables that translate, merged in visit order
RECURSIVE AppliedInOrder(_, _)
AppliedInOrder(items, out) ==
    IF items = <<>> THEN out
    ELSE LET nested == _envvar_to_nested(Head(items)[1], Head(items)[2], DEFAULT_PREFIX)
         IN  AppliedInOrder(Tail(items),
                            IF Returned(nested) THEN deep_merge(out, nested.ret.map)
                            ELSE out)
C7_FailingVariableSkippedAlone ==
    (ldPc = "done" /\ ldOut.exc # "MergeError") =>
        /\ ldOut.exc \in {"none", "ValidationError"}
        /\ ldLayers.envvars =
              AppliedInOrder(SelectSeq(osEnviron, LAMBDA kv : startswith(kv[1], DEFAULT_PREFIX)),
                             EmptyMap)

\* a failing variable was visited between two that translate, both applied
C7_Witness ==
    /\ ldPc = "done"
    /\ osEnviron = << <<APP_DB, "e1">>, <<APP___, "e4">>, <<APP_DB__HOST, "e2">> >>
    /\ ldLayers.envvars = DbHost("e2")
    /\ Returned(ldOut)

-----------------------------------------------------------------------------
(* C11: with ttl = 0 every call of get_secrets(env) invokes the wrapped     *)
(* provider, a second call for an environment already queried included:     *)
(* the provider has been invoked as often as get_secrets has been called.   *)

C11_TtlZeroAlwaysRefetches == cpTtl = 0 => backendCalls = cpSeq

-----------------------------------------------------------------------------
(* SpecYaml: _parse_yaml over texts of block-mapping lines.  Line n of a    *)
(* text is the key YamlKey(n) behind indent spaces, followed by ":" alone   *)
(* (open) or by ": 1".                                                      *)

MaxLines == 4       \* lines of a text
MaxIndent == 3      \* leading spaces of a line

KeyDebug == <<"d", "e", "b", "u", "g">>
KeyPort == <<"p", "o", "r", "t">>
YamlKey(n) ==
    CASE n = 1 -> KeyDebug
      [] n = 2 -> KeyDb
      [] n = 3 -> KeyHost
      [] n = 4 -> KeyPort
      [] OTHER -> <<"k", n>>

YamlLine(indent, open) == [indent |-> indent, open |-> open]
YamlLines == {YamlLine(i, o) : i \in 0..MaxIndent, o \in BOOLEAN}
YamlTexts == UNION {[1..n -> YamlLines] : n \in 0..MaxLines}

\* the mapping m with key k of the mapping at path set to v
RECURSIVE yaml_put(_, _, _, _)
yaml_put(m, path, k, v) ==
    IF path = <<>>
    THEN [x \in DOMAIN m \cup {k} |-> IF x = k THEN v ELSE m[x]]
    ELSE [x \in DOMAIN m |->
            IF x = Head(path) THEN Dict(yaml_put(m[x].map, Tail(path), k, v))
            ELSE m[x]]

\* the open block mappings, without those indented deeper than n
RECURSIVE yaml_unwind(_, _)
yaml_unwind(stack, n) ==
    IF stack # <<>> /\ stack[Len(stack)].indent > n
    THEN yaml_unwind(SubSeq(stack, 1, Len(stack) - 1), n)
    ELSE stack

\* yaml.safe_load from line n on: stack holds the open block mappings, each
\* with its indentation and its path in root.  A line indented deeper than
\* the open mapping starts a nested mapping below an open key and is a
\* ScannerError after "key: 1" (mapping values are not allowed here); a line
\* indented less must meet the indentation of an open mapping, else ParserError.
RECURSIVE yaml_scan(_, _, _, _)
yaml_scan(text, n, stack, root) ==
    IF n > Len(text) THEN Return(Dict(root))
    ELSE LET line == text[n]
             v == IF line.open THEN Scalar("None") ELSE Scalar("1")
             top == stack[Len(stack)]
         IN  IF n = 1
             THEN yaml_scan(text, 2, <<[indent |-> line.indent, path |-> <<>>]>>,
                            YamlKey(1) :> v)
             ELSE IF line.indent > top.indent
             THEN IF ~text[n - 1].open THEN Raise("ScannerError")
                  ELSE LET path == Append(top.path, YamlKey(n - 1))
                           below == yaml_put(root, top.path, YamlKey(n - 1),
                                             Dict(EmptyMap))
                       IN  yaml_scan(text, n + 1,
                                     Append(stack, [indent |-> line.indent,
                                                    path |-> path]),
                                     yaml_put(below, path, YamlKey(n), v))
             ELSE LET open == yaml_unwind(stack, line.indent)
                  IN  IF open = <<>> \/ open[Len(open)].indent < line.indent
                      THEN Raise("ParserError")
                      ELSE yaml_scan(text, n + 1, open,
                                     yaml_put(root, open[Len(open)].path,
                                              YamlKey(n), v))

\* yaml.safe_load(text); the empty document is None
safe_load(text) ==
    IF text = <<>> THEN Return(Scalar("None")) ELSE yaml_scan(text, 1, <<>>, EmptyMap)

\* the pass taking the space only from the lines that begin with one space
sanitized_single_space_lines(text) ==
    [n \in 1..Len(text) |->
        IF text[n].indent = 1 THEN YamlLine(0, text[n].open) ELSE text[n]]

\* line[1:] if line.startswith(" ") else line, for every line
sanitized(text) ==
    [n \in 1..Len(text) |->
        IF text[n].indent > 0
        THEN YamlLine(text[n].indent - 1, text[n].open)
        ELSE text[n]]

\* what yaml.safe_load did, with the texts handed to it so far
Parsed(outcome, texts) == [exc |-> outcome.exc, ret |-> outcome.ret, parsed |-> texts]

\* a file holding text: the strict parse and the parse of the sanitized text
YamlFile(text) ==
    FileWith(Parsed(safe_load(text), <<text>>),
             Parsed(safe_load(sanitized(text)), <<text, sanitized(text)>>))

YamlInit ==
    /\ yText \in YamlTexts
    /\ yLenient \in BOOLEAN
    /\ yOut = NotCalled
    /\ yLoad = NotCalled
    /\ yPc = "call"

\* _parse_yaml(text, lenient)
CallParseYaml ==
    /\ yPc = "call"
    /\ yOut' = _parse_yaml(YamlFile(yText), yLenient)
    /\ yPc' = "parsed"
    /\ UNCHANGED <<yText, yLenient, yLoad, mergeVars, keyVars, secretVars, getterVars,
                   loadVars, schemaVars, heapVars, lifeVars, dotVars, repVars, callerVars, assocVars>>

\* ConfigLoader(Model, config_dir, lenient_yaml=lenient).load() where config.yaml
\* holds the text and nothing else is there
LoadYaml ==
    /\ yPc = "parsed"
    /\ yLoad' = load(PlainFiles(YamlFile(yText), AbsentFile), yLenient, FALSE,
                     AbsentDotenv, Return(Dict(EmptyMap)), <<>>, DEFAULT_PREFIX,
                     Scalar("None")).out
    /\ yPc' = "done"
    /\ UNCHANGED <<yText, yLenient, yOut, mergeVars, keyVars, secretVars, getterVars,
                   loadVars, schemaVars, heapVars, lifeVars, dotVars, repVars, callerVars, assocVars>>

YamlNext == CallParseYaml \/ LoadYaml

SpecYamlInit == YamlInit /\ MergeIdle /\ KeyIdle /\ SecretsIdle /\ GetterIdle /\ LoadIdle /\ SchemaIdle /\ HeapIdle /\ LifeIdle /\ DotIdle /\ RepeatIdle /\ CallersIdle /\ AssocIdle
SpecYaml == SpecYamlInit /\ [][YamlNext]_vars

-----------------------------------------------------------------------------
(* C12: _parse_yaml(text, lenient) parses the text as it is first.  When    *)
(* that fails in the scanner and lenient is false the failure propagates    *)
(* and nothing else is parsed; when lenient is true the text with one       *)
(* leading space taken from its lines is parsed once more and the outcome   *)
(* of that parse, a failure included, is the outcome of the call.  No call  *)
(* parses more than twice, and load() turns either failure into MergeError: *)
(* a text with one leading space before a top-level key fails when not      *)
(* lenient and loads when lenient.                                          *)

\* other is text with one leading space taken from every line that has one
StrippedOnce(text, other) ==
    /\ Len(other) = Len(text)
    /\ \A n \in 1..Len(text) :
        /\ other[n].open = text[n].open
        /\ other[n].indent = IF text[n].indent = 0 THEN 0 ELSE text[n].indent - 1

SameOutcome(a, b) == a.exc = b.exc /\ a.ret = b.ret

\* debug: 1 / (one space) db: / host: 1 / port: 1
MalformedExample ==
    <<YamlLine(0, FALSE), YamlLine(1, TRUE), YamlLine(2, FALSE), YamlLine(2, FALSE)>>

-----------------------------------------------------------------------------
(* utils.py: compare_schemas.  A JSON value is tagged with what it is; a    *)
(* dict that is iterated is the sequence of its <<key, value>> pairs in key *)
(* order.  An entry of the result keeps the parts of its text apart.        *)

JNone == [tag |-> "none"]
JStr(s) == [tag |-> "str", str |-> s]
JList(l) == [tag |-> "list", list |-> l]

\* a sub-schema of "properties": its "type", whether it has "anyOf" or
\* "oneOf", and its "enum"
Property(type, anyOf, enum) == [type |-> type, anyOf |-> anyOf, enum |-> enum]

\* a schema: "properties" (when the key is there), "required", and the
\* schemas of "definitions"
Schema(has, props, required, definitions) ==
    [has_properties |-> has, properties |-> props, required |-> required,
     definitions |-> definitions]

keys(d) == [i \in 1..Len(d) |-> d[i][1]]
has_key(d, k) == \E i \in 1..Len(d) : d[i][1] = k
get(d, k) == d[CHOOSE i \in 1..Len(d) : d[i][1] = k][2]
as_set(l) == {l[i] : i \in 1..Len(l)}

\* the order of str on the property names used
Alphabet == <<"a", "b", "c">>
rank(name) == CHOOSE i \in 1..Len(Alphabet) : Alphabet[i] = name

RECURSIVE insert_sorted(_, _)
insert_sorted(s, k) ==
    IF s = <<>> THEN <<k>>
    ELSE IF rank(k) < rank(Head(s)) THEN <<k>> \o s
    ELSE <<Head(s)>> \o insert_sorted(Tail(s), k)

\* the names in the order the dict holds them
sorted_not(ks) == ks

\* sorted(ks)
RECURSIVE sorted(_)
sorted(ks) == IF ks = <<>> THEN <<>> ELSE insert_sorted(sorted(Tail(ks)), Head(ks))

\* _normalize_type(t)
_normalize_type(t) ==
    CASE t.tag = "none" -> <<>>
      [] t.tag = "list" -> t.list
      [] OTHER -> <<t.str>>

\* _get_props(schema) of a schema without "$ref": the properties and required
\* of the root, or of the first definition when the root has no properties
_get_props(schema) ==
    LET defs == schema.definitions
        root == IF ~schema.has_properties /\ defs # <<>> /\ defs[1].has_properties
                THEN defs[1] ELSE schema
    IN  [properties |-> IF root.has_properties THEN root.properties ELSE <<>>,
         required |-> root.required]

Entry(kind, k, detail) == [kind |-> kind, name |-> k, detail |-> detail]
NoEntries == [breaking |-> <<>>, non_breaking |-> <<>>]
Both(x, y) == [breaking |-> x.breaking \o y.breaking,
               non_breaking |-> x.non_breaking \o y.non_breaking]

\* old_req / new_req of a property of both schemas
required_entries(k, old_required, new_required) ==
    LET old_req == k \in old_required
        new_req == k \in new_required
    IN  [breaking |-> IF ~old_req /\ new_req
                      THEN <<Entry("property became required", k, <<>>)>> ELSE <<>>,
         non_breaking |-> IF old_req /\ ~new_req
                          THEN <<Entry("property became optional", k, <<>>)>> ELSE <<>>]

\* old_types / new_types of a property; "mixed" stands for anyOf / oneOf
declared_types(p) ==
    LET types == _normalize_type(p.type)
    IN  IF types = <<>> /\ p.anyOf THEN <<"mixed">> ELSE types

\* the type rule taking every widening for a change of type
type_entries_no_widening(k, old_p, new_p) ==
    LET old_types == declared_types(old_p)
        new_types == declared_types(new_p)
    IN  IF old_types # <<>> /\ new_types # <<>> /\ as_set(old_types) # as_set(new_types)
        THEN [breaking |-> <<Entry("type changed for property", k,
                                   <<old_types, new_types>>)>>,
              non_breaking |-> <<>>]
        ELSE NoEntries

type_entries(k, old_p, new_p) ==
    LET old_types == declared_types(old_p)
        new_types == declared_types(new_p)
    IN  IF old_types # <<>> /\ new_types # <<>> /\ as_set(old_types) # as_set(new_types)
        THEN IF as_set(old_types) \subseteq as_set(new_types)
             THEN [breaking |-> <<>>,
                   non_breaking |-> <<Entry("property type widened", k,
                                            <<old_types, new_types>>)>>]
             ELSE [breaking |-> <<Entry("type changed for property", k,
                                        <<old_types, new_types>>)>>,
                   non_breaking |-> <<>>]
        ELSE NoEntries

\* [v for v in xs if v not in ys]
not_in(xs, ys) == SelectSeq(xs, LAMBDA v : v \notin as_set(ys))

\* the enum rule reporting the removed values only
enum_entries_removed_only(k, old_p, new_p) ==
    IF old_p.enum.tag = "list" /\ new_p.enum.tag = "list"
    THEN LET removed_vals == not_in(old_p.enum.list, new_p.enum.list)
         IN  [breaking |-> IF removed_vals # <<>>
                           THEN <<Entry("enum values removed for", k, removed_vals)>>
                           ELSE <<>>,
              non_breaking |-> <<>>]
    ELSE NoEntries

enum_entries(k, old_p, new_p) ==
    IF old_p.enum.tag = "list" /\ new_p.enum.tag = "list"
    THEN LET removed_vals == not_in(old_p.enum.list, new_p.enum.list)
             added_vals == not_in(new_p.enum.list, old_p.enum.list)
         IN  [breaking |-> IF removed_vals # <<>>
                           THEN <<Entry("enum values removed for", k, removed_vals)>>
                           ELSE <<>>,
              non_breaking |-> IF added_vals # <<>>
                               THEN <<Entry("enum values added for", k, added_vals)>>
                               ELSE <<>>]
    ELSE NoEntries

\* the loop over the properties of both schemas, from the names ks on
RECURSIVE compare_common(_, _, _, _)
compare_common(ks, old, new, out) ==
    IF ks = <<>> THEN out
    ELSE LET k == Head(ks)
             old_p == get(old.properties, k)
             new_p == get(new.properties, k)
         IN  compare_common(Tail(ks), old, new,
                 Both(Both(Both(out,
                     required_entries(k, as_set(old.required), as_set(new.required))),
                     type_entries(k, old_p, new_p)),
                     enum_entries(k, old_p, new_p)))

compare_schemas(old_schema, new_schema) ==
    LET old == _get_props(old_schema)
        new == _get_props(new_schema)
        old_keys == keys(old.properties)
        new_keys == keys(new.properties)
        removed == SelectSeq(sorted(old_keys), LAMBDA k : ~has_key(new.properties, k))
        added == SelectSeq(sorted(new_keys), LAMBDA k : ~has_key(old.properties, k))
        common == SelectSeq(old_keys, LAMBDA k : has_key(new.properties, k))
    IN  compare_common(sorted(common), old, new,
            [breaking |-> [i \in 1..Len(removed) |->
                              Entry("removed property", removed[i], <<>>)],
             non_breaking |-> [i \in 1..Len(added) |->
                                  Entry("added property", added[i], <<>>)]])

(* cli.py: schema_diff_command.  The exit status is 2 for SystemExit(2), 1  *)
(* for an exception nobody catches, 0 when the command returns.             *)

\* the command exiting with 2 for any difference
exit_status_any_difference(result) ==
    IF result.breaking = <<>> /\ result.non_breaking = <<>> THEN 0 ELSE 2

\* the status the command ends with after compare_schemas returned result
exit_status(result) ==
    IF result.breaking = <<>> /\ result.non_breaking = <<>> THEN 0
    ELSE IF result.breaking # <<>> THEN 2
    ELSE 0

schema_diff_command(old_file, new_file) ==
    LET failed == IF ~Returned(old_file) THEN old_file ELSE new_file
    IN  IF ~Returned(old_file) \/ ~Returned(new_file)
        THEN IF failed.exc \in {"FileNotFoundError", "RuntimeError"} THEN 2 ELSE 1
        ELSE exit_status(compare_schemas(old_file.ret, new_file.ret))

-----------------------------------------------------------------------------
(* SpecSchema: two schema files are drawn, compare_schemas runs on the two  *)
(* schemas when both files are readable, then the schema-diff command runs. *)

MaxProps == 3       \* properties of a schema, when the names are varied

PropertyNames == as_set(Alphabet)
StringProperty == Property(JStr("string"), FALSE, JNone)
FlatSchema(props, required) == Schema(TRUE, props, required, <<>>)
InDefinitions(schema) == Schema(FALSE, <<>>, <<>>, <<schema>>)

\* the properties ks, each a string, in the order of ks
StringProperties(ks) == [i \in 1..Len(ks) |-> <<ks[i], StringProperty>>]

TypeChoices ==
    {JNone, JStr("string"), JStr("integer"),
     JList(<<"string", "integer">>), JList(<<"integer", "string">>)}
EnumChoices == {JNone, JStr("x"), JList(<<1>>), JList(<<1, 2>>), JList(<<2, 3>>)}
PropertyChoices ==
    {Property(t, a, e) : t \in TypeChoices, a \in BOOLEAN, e \in EnumChoices}

\* the names of the properties, their order and the required lists vary
NamesVaried ==
    /\ dOld \in {Return(FlatSchema(StringProperties(ks), rs)) :
                    ks \in DistinctSeqs(PropertyNames, MaxProps),
                    rs \in DistinctSeqs(PropertyNames, 1) \cup {<<"a", "b">>, Alphabet}}
    /\ dNew \in {Return(FlatSchema(StringProperties(ks), rs)) :
                    ks \in DistinctSeqs(PropertyNames, MaxProps),
                    rs \in DistinctSeqs(PropertyNames, 1) \cup {<<"a", "b">>, Alphabet}}

\* one property of both schemas varies in type, anyOf, enum and required
PropertiesVaried ==
    /\ dOld \in {Return(FlatSchema(<< <<"b", p>> >>, rs)) :
                    p \in PropertyChoices, rs \in {<<>>, <<"b">>}}
    /\ dNew \in {Return(FlatSchema(<< <<"b", p>> >>, rs)) :
                    p \in PropertyChoices, rs \in {<<>>, <<"b">>}}

\* the files are missing, unreadable or unparsable, or the schema is below
\* "definitions"
SchemaFilesVaried ==
    LET choices ==
            {Raise("FileNotFoundError"), Raise("RuntimeError"), Raise("PermissionError"),
             Return(FlatSchema(<<>>, <<>>)),
             Return(Schema(FALSE, <<>>, <<>>, <<>>)),
             Return(FlatSchema(StringProperties(<<"a">>), <<>>)),
             Return(InDefinitions(FlatSchema(StringProperties(<<"a">>), <<"a">>))),
             Return(InDefinitions(FlatSchema(StringProperties(<<"b", "a">>), <<>>))),
             Return(InDefinitions(InDefinitions(FlatSchema(StringProperties(<<"a">>), <<>>))))}
    IN  dOld \in choices /\ dNew \in choices

SchemaInit ==
    /\ NamesVaried \/ PropertiesVaried \/ SchemaFilesVaried
    /\ dOut = NoResult
    /\ dExit = -1
    /\ dPc = "call"

\* compare_schemas(old, new) on the schemas of two readable files
CallCompareSchemas ==
    /\ dPc = "call"
    /\ Returned(dOld) /\ Returned(dNew)
    /\ dOut' = compare_schemas(dOld.ret, dNew.ret)
    /\ dPc' = "compared"
    /\ UNCHANGED <<dOld, dNew, dExit, mergeVars, keyVars, secretVars, getterVars,
                   loadVars, yamlVars, heapVars, lifeVars, dotVars, repVars, callerVars, assocVars>>

\* dco schema-diff old new
SchemaDiffCommand ==
    /\ dPc = "compared" \/ (dPc = "call" /\ ~(Returned(dOld) /\ Returned(dNew)))
    /\ dExit' = schema_diff_command(dOld, dNew)
    /\ dPc' = "done"
    /\ UNCHANGED <<dOld, dNew, dOut, mergeVars, keyVars, secretVars, getterVars,
                   loadVars, yamlVars, heapVars, lifeVars, dotVars, repVars, callerVars, assocVars>>

SchemaNext == CallCompareSchemas \/ SchemaDiffCommand

SpecSchemaInit == SchemaInit /\ MergeIdle /\ KeyIdle /\ SecretsIdle /\ GetterIdle /\ LoadIdle /\ YamlIdle /\ HeapIdle /\ LifeIdle /\ DotIdle /\ RepeatIdle /\ CallersIdle /\ AssocIdle
SpecSchema == SpecSchemaInit /\ [][SchemaNext]_vars

-----------------------------------------------------------------------------
(* The two schemas compare_schemas was given, when each has "properties"    *)
(* at its root, and the entries of its result.                              *)

Compared == dOut # NoResult /\ dOld.ret.has_properties /\ dNew.ret.has_properties
OldNames == {dOld.ret.properties[i][1] : i \in 1..Len(dOld.ret.properties)}
NewNames == {dNew.ret.properties[i][1] : i \in 1..Len(dNew.ret.properties)}
OldRequired == {dOld.ret.required[i] : i \in 1..Len(dOld.ret.required)}
NewRequired == {dNew.ret.required[i] : i \in 1..Len(dNew.ret.required)}
OldProperty(k) ==
    dOld.ret.properties[CHOOSE i \in 1..Len(dOld.ret.properties) :
                            dOld.ret.properties[i][1] = k][2]
NewProperty(k) ==
    dNew.ret.properties[CHOOSE i \in 1..Len(dNew.ret.properties) :
                            dNew.ret.properties[i][1] = k][2]

\* the positions of list holding an entry of this kind about property k
EntriesAbout(list, kind, k) ==
    {i \in 1..Len(list) : list[i].kind = kind /\ list[i].name = k}
\* the entries of one kind stand in the order of the property names
InNameOrder(list, kind) ==
    \A i, j \in 1..Len(list) :
        (i < j /\ list[i].kind = kind /\ list[j].kind = kind) =>
            \E m, n \in 1..Len(Alphabet) :
                m < n /\ Alphabet[m] = list[i].name /\ Alphabet[n] = list[j].name

-----------------------------------------------------------------------------
(* C13: compare_schemas(old, new) reports every property of old that new    *)
(* lacks as exactly one entry "removed property" in breaking and every      *)
(* property of new that old lacks as exactly one entry "added property" in  *)
(* non_breaking; when new only adds properties to old, breaking is empty;   *)
(* the entries of each kind stand in sorted order of the property names     *)
(* whatever the key order of the inputs.                                    *)

\* new holds every property of old unchanged, with the same required set
OnlyAdds ==
    /\ OldNames \subseteq NewNames
    /\ \A k \in OldNames : OldProperty(k) = NewProperty(k)
    /\ OldRequired = NewRequired

C13_RemovedAndAdded ==
    Compared =>
        /\ \A k \in PropertyNames :
            /\ Cardinality(EntriesAbout(dOut.breaking, "removed property", k))
                    = IF k \in OldNames \ NewNames THEN 1 ELSE 0
            /\ Cardinality(EntriesAbout(dOut.non_breaking, "added property", k))
                    = IF k \in NewNames \ OldNames THEN 1 ELSE 0
            /\ EntriesAbout(dOut.non_breaking, "removed property", k) = {}
            /\ EntriesAbout(dOut.breaking, "added property", k) = {}
        /\ OnlyAdds => dOut.breaking = <<>>
        /\ InNameOrder(dOut.breaking, "removed property")
        /\ InNameOrder(dOut.non_breaking, "added property")

\* old holds c before a, new holds b alone: a and c are reported removed, in
\* this order, and b added
C13_Witness ==
    /\ dPc = "compared"
    /\ keys(dOld.ret.properties) = <<"c", "a">>
    /\ keys(dNew.ret.properties) = <<"b">>
    /\ dOut.breaking = <<Entry("removed property", "a", <<>>),
                         Entry("removed property", "c", <<>>)>>
    /\ dOut.non_breaking = <<Entry("added property", "b", <<>>)>>

-----------------------------------------------------------------------------
(* C14: for the properties of the new schema, compare_schemas(old, new)    *)
(* puts an entry in breaking for every property name that new requires and  *)
(* old does not, and an entry in non_breaking for every property name that  *)
(* old requires and new does not.                                           *)

C14_RequiredChanges ==
    Compared =>
        /\ \A k \in (NewRequired \ OldRequired) \cap NewNames :
                \E i \in 1..Len(dOut.breaking) : dOut.breaking[i].name = k
        /\ \A k \in (OldRequired \ NewRequired) \cap NewNames :
                \E i \in 1..Len(dOut.non_breaking) : dOut.non_breaking[i].name = k


-----------------------------------------------------------------------------
(* C15: for a property of both schemas whose declared type sets differ,     *)
(* compare_schemas adds exactly one entry about the type: to non_breaking   *)
(* when old's type set is a subset of new's, otherwise to breaking; a       *)
(* property without a type but with anyOf or oneOf has the type set         *)
(* {"mixed"}; equal type sets add no entry.  As the code has it, this holds *)
(* when both properties declare a type: a property that declares none, and  *)
(* has no anyOf or oneOf, adds no entry whatever the other declares.        *)

\* the type set a property declares
TypeSet(p) ==
    LET named == CASE p.type.tag = "str" -> {p.type.str}
                   [] p.type.tag = "list" -> {p.type.list[i] : i \in 1..Len(p.type.list)}
                   [] OTHER -> {}
    IN  IF named = {} /\ p.anyOf THEN {"mixed"} ELSE named

\* the number of entries about the type of k in breaking and in non_breaking
TypeChanged(k) == Cardinality(EntriesAbout(dOut.breaking, "type changed for property", k))
TypeWidened(k) == Cardinality(EntriesAbout(dOut.non_breaking, "property type widened", k))
NoTypeEntryElsewhere(k) ==
    /\ EntriesAbout(dOut.non_breaking, "type changed for property", k) = {}
    /\ EntriesAbout(dOut.breaking, "property type widened", k) = {}

\* the entries about the type of k are those of two differing type sets
TypeEntriesAsDiffering(k) ==
    LET old == TypeSet(OldProperty(k))
        new == TypeSet(NewProperty(k))
    IN  /\ NoTypeEntryElsewhere(k)
        /\ IF old = new THEN TypeChanged(k) = 0 /\ TypeWidened(k) = 0
           ELSE IF old \subseteq new THEN TypeChanged(k) = 0 /\ TypeWidened(k) = 1
           ELSE TypeChanged(k) = 1 /\ TypeWidened(k) = 0

C15_TypeChanges ==
    Compared =>
        \A k \in OldNames \cap NewNames :
            IF TypeSet(OldProperty(k)) # {} /\ TypeSet(NewProperty(k)) # {}
            THEN TypeEntriesAsDiffering(k)
            ELSE TypeChanged(k) = 0 /\ TypeWidened(k) = 0 /\ NoTypeEntryElsewhere(k)

\* the statement without the condition that both declare a type
C15_TypeChangesWheneverDiffering ==
    Compared => \A k \in OldNames \cap NewNames : TypeEntriesAsDiffering(k)

\* string became [integer, string]: one entry, in non_breaking
C15_Witness ==
    /\ dPc = "compared" /\ Compared
    /\ "b" \in OldNames \cap NewNames
    /\ TypeSet(OldProperty("b")) = {"string"}
    /\ NewProperty("b").type = JList(<<"integer", "string">>)
    /\ dOut.breaking = <<>>
    /\ dOut.non_breaking = <<Entry("property type widened", "b",
                                   << <<"string">>, <<"integer", "string">> >>)>>


-----------------------------------------------------------------------------
(* C16: for a property of both schemas with an enum list on both sides,     *)
(* compare_schemas adds one breaking entry listing exactly the values of    *)
(* old's enum that new's lacks when there is one, and one non_breaking      *)
(* entry listing exactly the values of new's enum that old's lacks when     *)
(* there is one; one property may add entries to both lists, next to its    *)
(* entries about required and type.                                         *)

HasEnumList(p) == p.enum.tag = "list"
EnumValues(p) == {p.enum.list[i] : i \in 1..Len(p.enum.list)}

\* list holds one entry of this kind about k listing exactly the values, each
\* once, or none when there is no value to list
ListsExactly(list, kind, k, values) ==
    LET about == EntriesAbout(list, kind, k)
    IN  IF values = {} THEN about = {}
        ELSE /\ Cardinality(about) = 1
             /\ \A i \in about :
                    /\ {list[i].detail[n] : n \in 1..Len(list[i].detail)} = values
                    /\ Len(list[i].detail) = Cardinality(values)

C16_EnumChanges ==
    Compared =>
        \A k \in OldNames \cap NewNames :
            /\ EntriesAbout(dOut.non_breaking, "enum values removed for", k) = {}
            /\ EntriesAbout(dOut.breaking, "enum values added for", k) = {}
            /\ IF HasEnumList(OldProperty(k)) /\ HasEnumList(NewProperty(k))
               THEN /\ ListsExactly(dOut.breaking, "enum values removed for", k,
                                    EnumValues(OldProperty(k)) \ EnumValues(NewProperty(k)))
                    /\ ListsExactly(dOut.non_breaking, "enum values added for", k,
                                    EnumValues(NewProperty(k)) \ EnumValues(OldProperty(k)))
               ELSE /\ EntriesAbout(dOut.breaking, "enum values removed for", k) = {}
                    /\ EntriesAbout(dOut.non_breaking, "enum values added for", k) = {}

\* b stops being required, goes from [string, integer] to integer and from
\* the enum [1, 2] to [2, 3]: two entries in each list
C16_Witness ==
    /\ dPc = "compared" /\ Compared
    /\ "b" \in OldNames \cap NewNames
    /\ OldRequired = {"b"} /\ NewRequired = {}
    /\ OldProperty("b") = Property(JList(<<"string", "integer">>), FALSE, JList(<<1, 2>>))
    /\ NewProperty("b") = Property(JStr("integer"), FALSE, JList(<<2, 3>>))
    /\ dOut.breaking = <<Entry("type changed for property", "b",
                               << <<"string", "integer">>, <<"integer">> >>),
                         Entry("enum values removed for", "b", <<1>>)>>
    /\ dOut.non_breaking = <<Entry("property became optional", "b", <<>>),
                             Entry("enum values added for", "b", <<3>>)>>

-----------------------------------------------------------------------------
(* C17: given two readable schema files, the schema-diff command exits with *)
(* a non-zero status if and only if compare_schemas returned at least one   *)
(* breaking entry; with non-breaking entries only, or no difference, it     *)
(* returns normally.                                                        *)

-----------------------------------------------------------------------------
(* core.py: deep_merge and the merges of load() over dict objects.  A dict  *)
(* is an object of the heap, a sequence of objects by address; a value of a *)
(* dict is a scalar or the address of another dict, so that two dicts can   *)
(* hold the same dict and a write to an object shows in all its holders.    *)

HVal(x) == [isref |-> FALSE, val |-> x]
HRef(addr) == [isref |-> TRUE, addr |-> addr]
Allocated(heap, addr) == [heap |-> heap, addr |-> addr]

\* a dict literal: the objects of the mapping m, from the keys ks on
RECURSIVE h_new(_, _, _, _)
h_new(heap, m, ks, obj) ==
    IF ks = {} THEN Allocated(Append(heap, obj), Len(heap) + 1)
    ELSE LET k == CHOOSE x \in ks : TRUE
             below == h_new(heap, m[k].map, DOMAIN m[k].map, EmptyMap)
             with(v) == [x \in DOMAIN obj \cup {k} |-> IF x = k THEN v ELSE obj[x]]
         IN  IF IsDict(m[k])
             THEN h_new(below.heap, m, ks \ {k}, with(HRef(below.addr)))
             ELSE h_new(heap, m, ks \ {k}, with(HVal(m[k].val)))
h_dict(heap, m) == h_new(heap, m, DOMAIN m, EmptyMap)

\* the mapping the dict at addr holds, as a value
RECURSIVE h_value(_, _)
h_value(heap, addr) ==
    [k \in DOMAIN heap[addr] |->
        IF heap[addr][k].isref THEN Dict(h_value(heap, heap[addr][k].addr))
        ELSE Scalar(heap[addr][k].val)]

\* out = a: the dict itself in place of a copy
dict_copy_none(heap, a) == Allocated(heap, a)

\* out = dict(a or {}): a new dict holding the values of a
dict_copy(heap, a) == Allocated(Append(heap, heap[a]), Len(heap) + 1)

\* out[k] = v
h_setitem(heap, out, k, v) ==
    [heap EXCEPT ![out] = [x \in DOMAIN @ \cup {k} |-> IF x = k THEN v ELSE @[x]]]

\* deep_merge(a, b) on the dicts at a and b: for k, v in b.items(), from the
\* keys ks on
RECURSIVE h_deep_merge(_, _, _)
RECURSIVE h_merge_items(_, _, _, _)
h_merge_items(heap, out, b, ks) ==
    IF ks = {} THEN Allocated(heap, out)
    ELSE LET k == CHOOSE x \in ks : TRUE
             v == heap[b][k]
         IN  IF k \in DOMAIN heap[out] /\ heap[out][k].isref /\ v.isref
             THEN LET merged == h_deep_merge(heap, heap[out][k].addr, v.addr)
                  IN  h_merge_items(h_setitem(merged.heap, out, k, HRef(merged.addr)),
                                    out, b, ks \ {k})
             ELSE h_merge_items(h_setitem(heap, out, k, v), out, b, ks \ {k})

\* deep_merge writing into a itself and into the dicts below it
h_deep_merge_in_place(heap, a, b) == h_merge_items(heap, a, b, DOMAIN heap[b])

h_deep_merge(heap, a, b) ==
    LET out == dict_copy(heap, a)
    IN  h_merge_items(out.heap, out.addr, b, DOMAIN heap[b])

\* merged = {}; for layer in (files, dotenv, secrets, envvars, overrides):
\*     merged = deep_merge(merged, layer)
RECURSIVE h_merge_layers(_, _, _)
h_merge_layers(heap, merged, layers) ==
    IF layers = <<>> THEN Allocated(heap, merged)
    ELSE LET next == h_deep_merge(heap, merged, Head(layers))
         IN  h_merge_layers(next.heap, next.addr, Tail(layers))

\* the merges of load(overrides): overrides or {} is a new dict when overrides
\* is None (address 0) or empty
h_load(heap, layers) ==
    LET ov == layers[Len(layers)]
        given == IF ov = 0 \/ heap[ov] = EmptyMap
                 THEN h_dict(heap, EmptyMap) ELSE Allocated(heap, ov)
        merged == h_dict(given.heap, EmptyMap)
    IN  h_merge_layers(merged.heap, merged.addr,
                       SubSeq(layers, 1, Len(layers) - 1) \o <<given.addr>>)

-----------------------------------------------------------------------------
(* SpecHeap: the arguments are built as dict objects, then deep_merge or    *)
(* the merges of load() run over them.                                      *)

MaxHeapEntries == 3     \* keys of an argument of deep_merge, over all levels

HeapMappings == UNION {MapsOfSize(n) : n \in 0..MaxHeapEntries}

\* the dicts of the mappings ms, one after the other
RECURSIVE h_dicts(_, _, _)
h_dicts(heap, ms, addrs) ==
    IF ms = <<>> THEN [heap |-> heap, addrs |-> addrs]
    ELSE LET one == h_dict(heap, Head(ms))
         IN  h_dicts(one.heap, Tail(ms), Append(addrs, one.addr))

\* what a layer of load() may hold
LayerChoices(x) ==
    {EmptyMap, DbHost(x), DbIs(x), (KeyDb :> Dict(EmptyMap)) @@ (KeyHost :> Scalar(x))}
LayerNames == <<"f", "d", "s", "e", "o">>

\* deep_merge(a, b) on two dicts, or on one dict given twice
HeapMergeInit ==
    /\ hOp = "deep_merge"
    /\ \E a, b \in HeapMappings :
        LET built == h_dicts(<<>>, <<a, b>>, <<>>)
        IN  /\ hHeap0 = built.heap
            /\ hArgs \in {built.addrs, <<built.addrs[1], built.addrs[1]>>}

\* load(overrides) on five layers; overrides may be None
HeapLoadInit ==
    /\ hOp = "load"
    /\ \E ms \in [1..5 -> UNION {LayerChoices(LayerNames[i]) : i \in 1..5}] :
        /\ \A i \in 1..5 : ms[i] \in LayerChoices(LayerNames[i])
        /\ LET built == h_dicts(<<>>, ms, <<>>)
           IN  /\ hHeap0 = built.heap
               /\ hArgs \in {built.addrs, [built.addrs EXCEPT ![5] = 0]}

HeapInit ==
    /\ HeapMergeInit \/ HeapLoadInit
    /\ hHeap = hHeap0
    /\ hOut = 0
    /\ hPc = "call"

\* deep_merge(a, b)
HeapDeepMerge ==
    /\ hPc = "call" /\ hOp = "deep_merge"
    /\ LET did == h_deep_merge(hHeap, hArgs[1], hArgs[2])
       IN  hHeap' = did.heap /\ hOut' = did.addr
    /\ hPc' = "done"
    /\ UNCHANGED <<hOp, hArgs, hHeap0, mergeVars, keyVars, secretVars, getterVars,
                   loadVars, yamlVars, schemaVars, lifeVars, dotVars, repVars, callerVars, assocVars>>

\* the merges of load(overrides)
HeapLoad ==
    /\ hPc = "call" /\ hOp = "load"
    /\ LET did == h_load(hHeap, hArgs)
       IN  hHeap' = did.heap /\ hOut' = did.addr
    /\ hPc' = "done"
    /\ UNCHANGED <<hOp, hArgs, hHeap0, mergeVars, keyVars, secretVars, getterVars,
                   loadVars, yamlVars, schemaVars, lifeVars, dotVars, repVars, callerVars, assocVars>>

HeapNext == HeapDeepMerge \/ HeapLoad

SpecHeapInit == HeapInit /\ MergeIdle /\ KeyIdle /\ SecretsIdle /\ GetterIdle /\ LoadIdle /\ YamlIdle /\ SchemaIdle /\ LifeIdle /\ DotIdle /\ RepeatIdle /\ CallersIdle /\ AssocIdle
SpecHeap == SpecHeapInit /\ [][HeapNext]_vars

-----------------------------------------------------------------------------
(* C18: deep_merge(A, B) mutates neither A nor B at any depth: after the    *)
(* call, and after the merges of load() over its five layers, the mapping   *)
(* of the secrets provider and the caller's overrides among them, every     *)
(* dict that existed before holds what it held; the result is a new dict,   *)
(* and so is each of its levels that is not a level of A or of B as it was. *)

\* the dict at the address r of the result is new, or it is the dict that a
\* or b holds at the same place; a or b is 0 where it holds no dict there
RECURSIVE ChangedLevelsAreNew(_, _, _)
ChangedLevelsAreNew(r, a, b) ==
    LET below(x, k) ==
            IF x # 0 /\ k \in DOMAIN hHeap0[x] /\ hHeap0[x][k].isref
            THEN hHeap0[x][k].addr ELSE 0
    IN  IF r <= Len(hHeap0) THEN r \in {a, b} \ {0}
        ELSE \A k \in DOMAIN hHeap[r] :
                hHeap[r][k].isref =>
                    ChangedLevelsAreNew(hHeap[r][k].addr, below(a, k), below(b, k))

\* the values of the five layers of load() before the call
LayerValue(i) ==
    IF hArgs[i] = 0 THEN EmptyMap ELSE h_value(hHeap0, hArgs[i])

C18_NoMutation ==
    hPc = "done" =>
        /\ Len(hHeap) >= Len(hHeap0)
        /\ \A addr \in 1..Len(hHeap0) : hHeap[addr] = hHeap0[addr]
        /\ \A i \in 1..Len(hArgs) :
            hArgs[i] # 0 => h_value(hHeap, hArgs[i]) = h_value(hHeap0, hArgs[i])
        /\ hOut > Len(hHeap0)
        /\ hOp = "deep_merge" =>
            /\ h_value(hHeap, hOut) = deep_merge(h_value(hHeap0, hArgs[1]),
                                                 h_value(hHeap0, hArgs[2]))
            /\ ChangedLevelsAreNew(hOut, hArgs[1], hArgs[2])
        /\ hOp = "load" =>
            h_value(hHeap, hOut) = merge_layers(LayerValue(1), LayerValue(2),
                                                LayerValue(3), LayerValue(4),
                                                LayerValue(5))

\* load() merged db of the secrets with db of the overrides into a new dict,
\* and the dicts of the secrets and of the overrides are as they were
C18_Witness ==
    /\ hPc = "done" /\ hOp = "load" /\ hArgs[5] # 0
    /\ LayerValue(3) = DbHost("s")
    /\ LayerValue(5) = (KeyDb :> Dict(EmptyMap)) @@ (KeyHost :> Scalar("o"))
    /\ h_value(hHeap, hArgs[3]) = DbHost("s")
    /\ h_value(hHeap, hOut) = (KeyDb :> Dict(KeyHost :> Scalar("s"))) @@ (KeyHost :> Scalar("o"))
    /\ hHeap[hOut][KeyDb].addr > Len(hHeap0)

-----------------------------------------------------------------------------
(* core.py: ConfigLoader from __init__ on.  The active environment is       *)
(* self.env; _read_files builds its candidate names from it and             *)
(* _read_secrets passes it to the secrets provider.                         *)

DEFAULT_ENV_KEY == "DCO_ENV"
Unset == "<unset>"
NoLoader == <<>>

\* os.getenv(key, default)
getenv(environ, key, default) ==
    IF environ[key] = Unset THEN default ELSE environ[key]

\* ConfigLoader.__init__: self.env_key, self.env
new_loader(environ, env_key) ==
    [env_key |-> env_key, env |-> getenv(environ, env_key, "development")]

\* the environment read again at the time of the call
active_env_now(self, environ) == getenv(environ, self.env_key, "development")

\* self.env, as _read_files and _read_secrets read it
active_env(self, environ) == self.env

\* candidate_files of _read_files: the name of each candidate in its parts
candidate_files(self, environ) ==
    [i \in Candidates |->
        IF i <= 3 THEN <<"config", CandidateSuffix[i]>>
        ELSE <<"config.", active_env(self, environ), CandidateSuffix[i]>>]

\* the env _read_secrets hands to secrets_provider.get_secrets
secrets_env(self, environ) == active_env(self, environ)

-----------------------------------------------------------------------------
(* SpecLife: a loader is built, then load() calls and changes of the        *)
(* environment variables follow in any order.                               *)

MaxLoadCalls == 2       \* load() calls of a behaviour
MaxEnvChanges == 2      \* changes of os.environ in a behaviour

EnvKeys == {DEFAULT_ENV_KEY, "APP_ENV"}
EnvNames == {"dev", "prod"}

LifeInit ==
    /\ eEnviron \in [EnvKeys -> EnvNames \cup {Unset}]
    /\ eSelf = NoLoader
    /\ eAtInit = ""
    /\ eFiles = <<>>
    /\ eSecretsEnv = ""
    /\ eLoads = 0
    /\ eChanges = 0

\* ConfigLoader(Model, env_key=key)
Construct(key) ==
    /\ eSelf = NoLoader
    /\ eSelf' = new_loader(eEnviron, key)
    /\ eAtInit' = eEnviron[key]
    /\ UNCHANGED <<eEnviron, eFiles, eSecretsEnv, eLoads, eChanges, mergeVars, keyVars,
                   secretVars, getterVars, loadVars, yamlVars, schemaVars, heapVars, dotVars, repVars, callerVars, assocVars>>

\* loader.load(): _read_files and _read_secrets with the loader's environment
LifeLoad ==
    /\ eSelf # NoLoader
    /\ eLoads < MaxLoadCalls
    /\ eLoads' = eLoads + 1
    /\ eFiles' = candidate_files(eSelf, eEnviron)
    /\ eSecretsEnv' = secrets_env(eSelf, eEnviron)
    /\ UNCHANGED <<eEnviron, eSelf, eAtInit, eChanges, mergeVars, keyVars, secretVars,
                   getterVars, loadVars, yamlVars, schemaVars, heapVars, dotVars, repVars, callerVars, assocVars>>

\* os.environ[key] = value, or del os.environ[key]
SetEnviron(key, value) ==
    /\ eChanges < MaxEnvChanges
    /\ eEnviron[key] # value
    /\ eEnviron' = [eEnviron EXCEPT ![key] = value]
    /\ eChanges' = eChanges + 1
    /\ UNCHANGED <<eSelf, eAtInit, eFiles, eSecretsEnv, eLoads, mergeVars, keyVars,
                   secretVars, getterVars, loadVars, yamlVars, schemaVars, heapVars, dotVars, repVars, callerVars, assocVars>>

LifeNext ==
    \/ \E key \in EnvKeys : Construct(key)
    \/ LifeLoad
    \/ \E key \in EnvKeys, value \in EnvNames \cup {Unset} : SetEnviron(key, value)

SpecLifeInit == LifeInit /\ MergeIdle /\ KeyIdle /\ SecretsIdle /\ GetterIdle /\ LoadIdle /\ YamlIdle /\ SchemaIdle /\ HeapIdle /\ DotIdle /\ RepeatIdle /\ CallersIdle /\ AssocIdle
SpecLife == SpecLifeInit /\ [][LifeNext]_vars

-----------------------------------------------------------------------------
(* C19: the active environment of a ConfigLoader is read once, when the     *)
(* loader is built, from the designated environment variable, "development" *)
(* when the variable is unset, and never changes: after any load() calls    *)
(* and any later change of the variable the loader selects the              *)
(* config.<env> files and queries the secrets of the environment it read    *)
(* when it was built.                                                       *)

\* the environment the variable named when the loader was built
EnvAtInit == IF eAtInit = Unset THEN "development" ELSE eAtInit

C19_EnvFixedAtConstruction ==
    eSelf # NoLoader =>
        /\ eSelf.env = EnvAtInit
        /\ eLoads > 0 =>
            /\ eSecretsEnv = EnvAtInit
            /\ Len(eFiles) = 6
            /\ \A i \in 1..3 : eFiles[i] = <<"config", CandidateSuffix[i]>>
            /\ \A i \in 4..6 : eFiles[i] = <<"config.", EnvAtInit, CandidateSuffix[i]>>

\* built while DCO_ENV was unset; DCO_ENV was then set to prod, and a load()
\* after that still used development
C19_Witness ==
    /\ eSelf # NoLoader /\ eSelf.env_key = DEFAULT_ENV_KEY
    /\ eAtInit = Unset /\ eEnviron[DEFAULT_ENV_KEY] = "prod"
    /\ eChanges = 1 /\ eLoads = 2
    /\ eSecretsEnv = "development"
    /\ eFiles[4] = <<"config.", "development", ".yaml">>

-----------------------------------------------------------------------------
(* SpecFiles: load() where one base file and one environment-qualified file *)
(* exist, each holding a mapping, and the other layers are empty.           *)

MaxBaseEntries == 3     \* keys of the base file, over all levels
MaxEnvEntries == 2      \* keys of the environment-qualified file

\* candidate i holds base, candidate j holds envfile, no other file exists
FilesAt(i, base, j, envfile) ==
    [n \in Candidates |-> IF n = i THEN base ELSE IF n = j THEN envfile ELSE AbsentFile]

BaseAndEnvInit ==
    /\ ldFiles \in {FilesAt(i, DictFile(b), j, DictFile(e)) :
                        i \in 1..3, j \in 4..6,
                        b \in UNION {MapsOfSize(n) : n \in 0..MaxBaseEntries},
                        e \in UNION {MapsOfSize(n) : n \in 0..MaxEnvEntries}}
    /\ ldLenient = FALSE
    /\ ldLoadDotenv = FALSE
    /\ ldDotenv = AbsentDotenv
    /\ ldSecrets = Return(Dict(EmptyMap))
    /\ osEnviron = <<>>
    /\ ldOverrides = Scalar("None")
    /\ ldOut = NotCalled
    /\ ldLayers = NoLayers
    /\ ldMerged = NoResult
    /\ ldPc = "call"

SpecFilesInit == BaseAndEnvInit /\ MergeIdle /\ KeyIdle /\ SecretsIdle /\ GetterIdle /\ YamlIdle /\ SchemaIdle /\ HeapIdle /\ LifeIdle /\ DotIdle /\ RepeatIdle /\ CallersIdle /\ AssocIdle
SpecFiles == SpecFilesInit /\ [][LoadNext]_vars

-----------------------------------------------------------------------------
(* C20: within the files layer the environment-qualified file is merged     *)
(* after the base file: a key path that both files set holds the value of   *)
(* the environment-qualified file in the files layer, and a key that only   *)
(* the base file sets, in a mapping both files hold, keeps its value.  A    *)
(* path that both files set to a mapping holds the merge of the two.        *)

\* the mapping of the one base file and of the one environment-qualified file
BaseFile == ldFiles[CHOOSE i \in 1..3 : ldFiles[i].exists].strict.ret.map
EnvFile == ldFiles[CHOOSE j \in 4..6 : ldFiles[j].exists].strict.ret.map
OneBaseOneEnv ==
    /\ Cardinality({i \in 1..3 : ldFiles[i].exists}) = 1
    /\ Cardinality({j \in 4..6 : ldFiles[j].exists}) = 1
    /\ \A i \in Candidates :
        ldFiles[i].exists => Returned(ldFiles[i].strict) /\ IsDict(ldFiles[i].strict.ret)

\* both files hold a mapping at the path above the last key of path
SharedLevel(path) ==
    Len(path) = 1
    \/ (/\ SetsMapping(BaseFile, SubSeq(path, 1, Len(path) - 1))
        /\ SetsMapping(EnvFile, SubSeq(path, 1, Len(path) - 1)))

-----------------------------------------------------------------------------
(* SpecDotenvKey: _read_dotenv over a .env file that holds one key, the     *)
(* prefix left at its default.  dotenv_values takes as a key any run of     *)
(* characters other than "=", "#" and white space, so a key is not empty.   *)

DotKeyChars == {"D", "b", "_", "."}
MaxDotKeyLen == 4

RECURSIVE DotStringsOfLen(_)
DotStringsOfLen(n) ==
    IF n = 0 THEN {<<>>}
    ELSE {Append(s, c) : s \in DotStringsOfLen(n - 1), c \in DotKeyChars}
DotKeys == UNION {DotStringsOfLen(n) : n \in 1..MaxDotKeyLen}

DotInit ==
    /\ dfKey \in DotKeys
    /\ dfValue \in {"x", "Y z"}
    /\ dfOut = NotCalled
    /\ dfPc = "call"

CallReadDotenv ==
    /\ dfPc = "call"
    /\ dfOut' = _read_dotenv(TRUE, DotenvWith(Return(<< <<dfKey, dfValue>> >>)),
                             DEFAULT_PREFIX)
    /\ dfPc' = "done"
    /\ UNCHANGED <<dfKey, dfValue, mergeVars, keyVars, secretVars, getterVars, loadVars, yamlVars, schemaVars, heapVars, lifeVars, repVars, callerVars, assocVars>>

DotNext == CallReadDotenv

SpecDotenvKeyInit == DotInit /\ MergeIdle /\ KeyIdle /\ SecretsIdle /\ GetterIdle /\ LoadIdle /\ YamlIdle /\ SchemaIdle /\ HeapIdle /\ LifeIdle /\ RepeatIdle /\ CallersIdle /\ AssocIdle
SpecDotenvKey == SpecDotenvKeyInit /\ [][DotNext]_vars

-----------------------------------------------------------------------------
(* C21: in the dotenv read a key without the prefix that contains a dot     *)
(* gives the chain of one-key mappings along its lower-cased segments,      *)
(* empty segments discarded, with the value at the leaf; a key with         *)
(* neither the prefix nor a dot gives one top-level lower-cased key that    *)
(* holds the raw value.                                                     *)

\* the stretches of key between dots, stated on positions: <<lo, hi>> of
\* each maximal run of characters other than "."
DotSpans(s) ==
    {sp \in (1..Len(s)) \X (1..Len(s)) :
        /\ sp[1] <= sp[2]
        /\ \A i \in sp[1]..sp[2] : s[i] # "."
        /\ (sp[1] = 1 \/ s[sp[1] - 1] = ".")
        /\ (sp[2] = Len(s) \/ s[sp[2] + 1] = ".")}
NonEmptySegments(s) ==
    LET spans == SpansInOrder(DotSpans(s))
    IN  [n \in 1..Len(spans) |-> lower(SubSeq(s, spans[n][1], spans[n][2]))]

C21_DottedDotenvKey ==
    (dfPc = "done" /\ ~startswith(dfKey, DEFAULT_PREFIX)) =>
        IF contains_dot(dfKey)
        THEN NonEmptySegments(dfKey) # <<>> =>
                /\ Returned(dfOut) /\ IsDict(dfOut.ret)
                /\ IsChainAlong(dfOut.ret.map, NonEmptySegments(dfKey), dfValue)
        ELSE dfOut = Return(Dict(lower(dfKey) :> Scalar(dfValue)))

\* the half of C21 that the code meets: keys without an empty segment
C21_WithoutEmptySegments ==
    (dfPc = "done" /\ ~startswith(dfKey, DEFAULT_PREFIX)) =>
        IF contains_dot(dfKey)
        THEN (\A i \in 1..Len(split_dot(dfKey)) : split_dot(dfKey)[i] # <<>>) =>
                /\ Returned(dfOut) /\ IsDict(dfOut.ret)
                /\ IsChainAlong(dfOut.ret.map, NonEmptySegments(dfKey), dfValue)
        ELSE dfOut = Return(Dict(lower(dfKey) :> Scalar(dfValue)))


-----------------------------------------------------------------------------
(* C22: the empty mapping is a two-sided identity of deep_merge:            *)
(* deep_merge(A, {}) = A and deep_merge({}, B) = B for all mappings A, B.   *)

C22_EmptyIsIdentity ==
    mPc = "done" =>
        /\ mB = EmptyMap => mOut = Dict(mA)
        /\ mA = EmptyMap => mOut = Dict(mB)

\* deep_merge(A, {}) with a nested mapping in A
C22_Witness ==
    /\ mPc = "done"
    /\ mB = EmptyMap
    /\ KeyDb \in DOMAIN mA /\ IsDict(mA[KeyDb]) /\ mA[KeyDb].map # EmptyMap
    /\ mOut = Dict(mA)


-----------------------------------------------------------------------------
(* SpecRepeat: load() called MaxRepeats times on one loader while the files, *)
(* the .env file, the environment variables, the answer of the secrets      *)
(* provider and the overrides stay as they are.  _read_files, _read_dotenv  *)
(* and _read_envvars build a new dict on every call; the secrets provider   *)
(* answers with one dict object every time or with a new equal one; the     *)
(* caller passes the same overrides object, or None, every time.            *)

MaxRepeats == 2

RepeatInit ==
    /\ rContent \in {ms \in [1..5 -> UNION {LayerChoices(LayerNames[i]) : i \in 1..5}] :
                        \A i \in 1..5 : ms[i] \in LayerChoices(LayerNames[i])}
    /\ rSecretsShared \in BOOLEAN
    /\ LET built == h_dicts(<<>>, <<rContent[3], rContent[5]>>, <<>>)
       IN  /\ rHeap0 = built.heap
           /\ rShared \in {[secrets |-> built.addrs[1], overrides |-> built.addrs[2]],
                           [secrets |-> built.addrs[1], overrides |-> 0]}
    /\ rHeap = rHeap0
    /\ rOuts = <<>>

\* loader.load(overrides): the readers, the merges, validate_model
RepeatLoad ==
    /\ Len(rOuts) < MaxRepeats
    /\ LET read == h_dicts(rHeap,
                           <<rContent[1], rContent[2], rContent[3], rContent[4]>>,
                           <<>>)
           secrets == IF rSecretsShared THEN rShared.secrets ELSE read.addrs[3]
           did == h_load(read.heap, <<read.addrs[1], read.addrs[2], secrets,
                                      read.addrs[4], rShared.overrides>>)
       IN  /\ rHeap' = did.heap
           /\ rOuts' = Append(rOuts, [addr |-> did.addr,
                                      cfg |-> validate_model(h_value(did.heap, did.addr))])
    /\ UNCHANGED <<rContent, rSecretsShared, rShared, rHeap0, mergeVars, keyVars, secretVars, getterVars, loadVars, yamlVars, schemaVars, heapVars, lifeVars, dotVars, callerVars, assocVars>>

RepeatNext == RepeatLoad

SpecRepeatInit == RepeatInit /\ MergeIdle /\ KeyIdle /\ SecretsIdle /\ GetterIdle /\ LoadIdle /\ YamlIdle /\ SchemaIdle /\ HeapIdle /\ LifeIdle /\ DotIdle /\ CallersIdle /\ AssocIdle
SpecRepeat == SpecRepeatInit /\ [][RepeatNext]_vars

-----------------------------------------------------------------------------
(* C23: load() is repeatable: with the files, the .env file, the            *)
(* environment variables, the overrides and the answer of the secrets       *)
(* provider unchanged, every load() on the loader gives the same validated  *)
(* configuration (or the same ValidationError) as the first, and a load()   *)
(* leaves the dict of the provider and the dict of the overrides, which the *)
(* next load() reads, holding what they held.                               *)

C23_Repeatable ==
    /\ \A i \in 1..Len(rOuts) :
        /\ rOuts[i].cfg = rOuts[1].cfg
        /\ rOuts[i].cfg = validate_model(merge_layers(rContent[1], rContent[2],
                                rContent[3], rContent[4],
                                IF rShared.overrides = 0 THEN EmptyMap ELSE rContent[5]))
        /\ rOuts[i].cfg = validate_model(h_value(rHeap, rOuts[i].addr))
    /\ Len(rOuts) > 0 =>
        \A addr \in 1..Len(rHeap0) : rHeap[addr] = rHeap0[addr]

\* two calls; the dict of the provider and the overrides both hold a mapping
\* under db, which load() merges, and both calls gave the same configuration
C23_Witness ==
    /\ Len(rOuts) = 2
    /\ rSecretsShared /\ rShared.overrides # 0
    /\ rContent[1] = EmptyMap
    /\ rContent[3] = DbHost("s")
    /\ rContent[5] = (KeyDb :> Dict(EmptyMap)) @@ (KeyHost :> Scalar("o"))
    /\ Returned(rOuts[1].cfg) /\ rOuts[2].cfg = rOuts[1].cfg
    /\ rOuts[1].addr # rOuts[2].addr


-----------------------------------------------------------------------------
(* C24: the sanitization pass of _parse_yaml takes one leading space from   *)
(* every line that begins with a space, whether one space or more, and      *)
(* leaves the lines that do not begin with a space as they are; the number  *)
(* of lines and the rest of each line stay.                                 *)

\* the text the retry parsed, when _parse_yaml retried
Retried == yPc \in {"parsed", "done"} /\ Len(yOut.parsed) = 2

C24_Sanitization ==
    Retried =>
        /\ Len(yOut.parsed[2]) = Len(yText)
        /\ \A n \in 1..Len(yText) :
            /\ yOut.parsed[2][n].open = yText[n].open
            /\ yText[n].indent >= 1 => yOut.parsed[2][n].indent = yText[n].indent - 1
            /\ yText[n].indent = 0 => yOut.parsed[2][n] = yText[n]

\* C24 as first stated: only the lines that begin with exactly one space
\* lose it, and a line that begins with two or more spaces is unchanged
C24_OnlyLinesOfOneSpace ==
    Retried =>
        /\ Len(yOut.parsed[2]) = Len(yText)
        /\ \A n \in 1..Len(yText) :
            /\ yText[n].indent = 1 => yOut.parsed[2][n] = YamlLine(0, yText[n].open)
            /\ yText[n].indent # 1 => yOut.parsed[2][n] = yText[n]

\* the malformed example: the line of one space and the lines of two spaces
\* each lost one, the first line is as it was
C24_Witness ==
    /\ Retried /\ yText = MalformedExample
    /\ yOut.parsed[2] = <<YamlLine(0, FALSE), YamlLine(0, TRUE),
                          YamlLine(1, FALSE), YamlLine(1, FALSE)>>


-----------------------------------------------------------------------------
(* C25: among the base candidates config.yaml, config.yml and config.json   *)
(* the first existing one wins: when several of them exist (and no          *)
(* environment-qualified file does), the files layer holds, for every key   *)
(* that several of them set, the value of the first existing candidate.     *)

BaseCandidates == 1..3
ExistingBase == {i \in BaseCandidates : ldFiles[i].exists}
FirstExistingBase == CHOOSE i \in ExistingBase : \A j \in ExistingBase : i <= j
OnlyBaseFilesRead ==
    /\ ldPc = "done" /\ ldLayers # NoLayers
    /\ Cardinality(ExistingBase) >= 2
    /\ \A i \in Candidates \ BaseCandidates : ~ldFiles[i].exists
    /\ \A i \in ExistingBase : IsDict(ParseEndsWith(i).ret)

C25_FirstExistingBaseWins ==
    OnlyBaseFilesRead =>
        LET first == ParseEndsWith(FirstExistingBase).ret.map
        IN  \A k \in DOMAIN first :
                (\E j \in ExistingBase \ {FirstExistingBase} :
                    k \in DOMAIN ParseEndsWith(j).ret.map)
                    => ldLayers.files[k] = first[k]


-----------------------------------------------------------------------------
(* SpecCallers: NumCallers threads call get_secrets of one CachedProvider.  *)
(* The method takes no lock, so the threads interleave between its          *)
(* statements: now = time.time(); entry = self._cache.get(env) and the      *)
(* test; value = self.provider.get_secrets(env); self._cache[env] = ...     *)
(* The ttl is 0 or longer than the clock runs, so no entry expires.         *)

NumCallers == 2
MaxCallerCalls == 3     \* get_secrets calls begun in one behaviour
Callers == 1..NumCallers

CallersInit ==
    /\ cpTtl \in {0, MaxTime + 1}
    /\ cpCache = EmptyMap
    /\ cpRet = NotCalled
    /\ cpEnv = ""
    /\ cpSeq = 0
    /\ clock = 0
    /\ backendMode = "ok"
    /\ backendVer = 0
    /\ backendCalls = 0
    /\ gsPc = [t \in Callers |-> "idle"]
    /\ gsEnv = [t \in Callers |-> ""]
    /\ gsNow = [t \in Callers |-> 0]
    /\ gsValue = [t \in Callers |-> NoResult]
    /\ gsRet = [t \in Callers |-> NotCalled]

\* now = time.time()
CallerBegin(t, env) ==
    /\ gsPc[t] \in {"idle", "done"}
    /\ cpSeq < MaxCallerCalls
    /\ cpSeq' = cpSeq + 1
    /\ gsEnv' = [gsEnv EXCEPT ![t] = env]
    /\ gsNow' = [gsNow EXCEPT ![t] = clock]
    /\ gsRet' = [gsRet EXCEPT ![t] = NotCalled]
    /\ gsPc' = [gsPc EXCEPT ![t] = "lookup"]
    /\ UNCHANGED <<gsValue, cpTtl, cpCache, cpRet, cpEnv, clock, backendMode, backendVer, backendCalls, mergeVars, keyVars, getterVars, loadVars, yamlVars, schemaVars, heapVars, lifeVars, dotVars, repVars, assocVars>>

\* entry = self._cache.get(env); if entry: ... return value
CallerLookup(t) ==
    /\ gsPc[t] = "lookup"
    /\ IF /\ gsEnv[t] \in DOMAIN cpCache
          /\ cache_fresh(cpCache[gsEnv[t]].ts, gsNow[t], cpTtl)
       THEN /\ gsRet' = [gsRet EXCEPT ![t] = Return(cpCache[gsEnv[t]].value)]
            /\ gsPc' = [gsPc EXCEPT ![t] = "done"]
       ELSE /\ gsPc' = [gsPc EXCEPT ![t] = "fetch"]
            /\ UNCHANGED gsRet
    /\ UNCHANGED <<gsEnv, gsNow, gsValue, secretVars, mergeVars, keyVars, getterVars, loadVars, yamlVars, schemaVars, heapVars, lifeVars, dotVars, repVars, assocVars>>

\* value = self.provider.get_secrets(env), made a dict
CallerFetch(t) ==
    /\ gsPc[t] = "fetch"
    /\ gsValue' = [gsValue EXCEPT ![t] = fetched_value(provider_get_secrets(gsEnv[t]))]
    /\ backendCalls' = backendCalls + 1
    /\ gsPc' = [gsPc EXCEPT ![t] = "store"]
    /\ UNCHANGED <<gsEnv, gsNow, gsRet, cpTtl, cpCache, cpRet, cpEnv, cpSeq, clock, backendMode, backendVer, mergeVars, keyVars, getterVars, loadVars, yamlVars, schemaVars, heapVars, lifeVars, dotVars, repVars, assocVars>>

\* self._cache[env] = (now, value); return value
CallerStore(t) ==
    /\ gsPc[t] = "store"
    /\ cpCache' = [e \in DOMAIN cpCache \cup {gsEnv[t]} |->
                      IF e = gsEnv[t] THEN [ts |-> gsNow[t], value |-> gsValue[t]]
                      ELSE cpCache[e]]
    /\ gsRet' = [gsRet EXCEPT ![t] = Return(gsValue[t])]
    /\ gsPc' = [gsPc EXCEPT ![t] = "done"]
    /\ UNCHANGED <<gsEnv, gsNow, gsValue, cpTtl, cpRet, cpEnv, cpSeq, clock, backendMode, backendVer, backendCalls, mergeVars, keyVars, getterVars, loadVars, yamlVars, schemaVars, heapVars, lifeVars, dotVars, repVars, assocVars>>

CallersNext ==
    \/ \E t \in Callers, env \in Envs : CallerBegin(t, env)
    \/ \E t \in Callers : CallerLookup(t)
    \/ \E t \in Callers : CallerFetch(t)
    \/ \E t \in Callers : CallerStore(t)
    \/ Tick
    \/ BackendChange

SpecCallersInit == CallersInit /\ MergeIdle /\ KeyIdle /\ GetterIdle /\ LoadIdle /\ YamlIdle /\ SchemaIdle /\ HeapIdle /\ LifeIdle /\ DotIdle /\ RepeatIdle /\ AssocIdle
SpecCallers == SpecCallersInit /\ [][CallersNext]_vars

-----------------------------------------------------------------------------
(* C26: a get_secrets call is atomic with respect to the cache: concurrent  *)
(* calls give the backend calls and the cache of some sequential order.     *)
(* While no entry expires a sequential order calls the backend once for     *)
(* each environment asked for, so concurrent calls do so too, and every     *)
(* call for an environment returns the value cached for it.                 *)

\* the environments with an entry, or with a call on its way to store one
EnvsAsked ==
    DOMAIN cpCache \cup {gsEnv[t] : t \in {u \in Callers : gsPc[u] \in {"fetch", "store"}}}

C26_AtomicGetSecrets ==
    /\ backendCalls <= Cardinality(EnvsAsked)
    /\ \A t \in Callers :
        gsPc[t] = "done" => gsRet[t] = Return(cpCache[gsEnv[t]].value)

(* C26, the part about different environments: a step changes the entry of  *)
(* an environment only when it is the store of a call for that environment. *)
C26_EnvsIndependent ==
    [][\A e \in Envs :
        (e \in DOMAIN cpCache' /\ (e \notin DOMAIN cpCache \/ cpCache'[e] # cpCache[e]))
            => \E t \in Callers :
                    gsPc[t] = "store" /\ gsEnv[t] = e /\ gsPc'[t] = "done"]_vars


-----------------------------------------------------------------------------
(* C27: invalidation of the cached getter is never undone by an older load: *)
(* the cache is populated only by a call that started after the latest      *)
(* cache_clear(), so a load() in flight when cache_clear() runs does not    *)
(* store its result, and a call made after the cache_clear() is never       *)
(* handed a configuration loaded before it.                                 *)

C27_Step ==
    (gCache' # NoInstance /\ gCache' # gCache) =>
        \E t \in Threads : tPc[t] = "loaded" /\ tPc'[t] = "idle" /\ tGen[t] = gen

C27_InvalidationNotUndone == [][C27_Step]_vars


-----------------------------------------------------------------------------
(* cli.py: watch_command.on_change, after get_settings.cache_clear():       *)
(* try: s = get_settings(); print(...)  except Exception as e: print(...)   *)

\* the exceptions that are not subclasses of Exception
BaseExceptionsOnly == {"KeyboardInterrupt", "SystemExit", "GeneratorExit"}

\* on_change without the try
on_change_uncaught(got) ==
    IF Returned(got) THEN Return(Scalar("None")) ELSE got

\* what the callback does with the outcome of get_settings()
on_change(got) ==
    IF Returned(got) THEN Return(Scalar("None"))
    ELSE IF got.exc \in BaseExceptionsOnly THEN got
    ELSE Return(Scalar("None"))

-----------------------------------------------------------------------------
(* C28: a failed load is never memoized.  When load() raises inside the     *)
(* getter the error goes to the caller and the cache stays empty, so the    *)
(* next call runs load() again; the watch callback that cleared the cache   *)
(* and got the failure returns normally, and no call after a cache_clear()  *)
(* is handed a configuration that a call before it was handed.              *)

LoadFailures == {"MergeError", "ValidationError"}

C28_Step ==
    \* load() raised: _get() raises the same, nothing is stored, and the
    \* callback that made the call does not raise
    /\ (tPc[1] = "loaded" /\ ~Returned(tRes[1]) /\ tPc'[1] = "idle")
        => /\ tRes[1].exc \in LoadFailures
           /\ tRet'[1] = tRes[1]
           /\ gCache = NoInstance /\ gCache' = NoInstance
           /\ Returned(on_change(tRet'[1]))
    \* the call after a failed one runs load() again
    /\ (tPc[1] = "idle" /\ tRet[1].exc \in LoadFailures
            /\ gen' = gen /\ worldVer' = worldVer)
        => tPc'[1] = "loading" /\ nLoads' = nLoads + 1

C28_FailureNotMemoized ==
    /\ [][C28_Step]_vars
    /\ [](\A g, h \in Generations : g < h => genRets[g] \cap genRets[h] = {})

\* a configuration was cached, the files became malformed, the cache was
\* cleared, the reload failed and the call after it failed anew
C28_Witness ==
    /\ tPc[1] = "idle"
    /\ gen = 1 /\ nLoads = 3
    /\ genRets[0] = {1} /\ genRets[1] = {}
    /\ worldState = "malformed"
    /\ tRet[1] = Raise("MergeError")
    /\ gCache = NoInstance


-----------------------------------------------------------------------------
(* C29: the dotenv layer is all-or-nothing.  _read_dotenv gives the         *)
(* translation of every key of the .env file, or the empty mapping: one key *)
(* whose handling raises (the prefix alone or followed by underscores only, *)
(* or a dotted key below a path that already holds a string) empties the    *)
(* layer, the well-formed keys of the file included, whereas among the      *)
(* environment variables such a key is skipped alone.                       *)

\* where a key of the .env file puts its value
DotenvPath(k) ==
    IF startswith(k, DEFAULT_PREFIX)
    THEN ExpectedPath(SubSeq(k, Len(DEFAULT_PREFIX) + 1, Len(k)))
    ELSE LET parts == split_dot(k) IN [i \in 1..Len(parts) |-> lower(parts[i])]

\* the translation of the keys, each laid over the ones before it; a key
\* that names no path adds nothing
RECURSIVE DotenvTranslation(_)
DotenvTranslation(items) ==
    IF items = <<>> THEN EmptyMap
    ELSE LET last == items[Len(items)]
             before == DotenvTranslation(SubSeq(items, 1, Len(items) - 1))
         IN  IF DotenvPath(last[1]) = <<>> THEN before
             ELSE deep_merge(before, build_nested(DotenvPath(last[1]), last[2]))

\* the handling of the n-th key raises
DotenvKeyRaises(items, n) ==
    \/ FailsTranslation(items[n])
    \/ /\ ~startswith(items[n][1], DEFAULT_PREFIX)
       /\ ScalarAbove(DotenvTranslation(SubSeq(items, 1, n - 1)), DotenvPath(items[n][1]))
\* no key up to the first that raises is looked at after it
FirstRaising(items) ==
    {n \in 1..Len(items) :
        DotenvKeyRaises(items, n) /\ \A j \in 1..(n - 1) : ~DotenvKeyRaises(items, j)}

DotenvIsRead == ldLoadDotenv /\ ldDotenv.exists /\ Returned(ldDotenv.values)

C29_DotenvAllOrNothing ==
    (ldPc = "done" /\ ldOut.exc # "MergeError") =>
        /\ ~DotenvIsRead => ldLayers.dotenv = EmptyMap
        /\ DotenvIsRead =>
            ldLayers.dotenv = IF FirstRaising(ldDotenv.values.ret) # {} THEN EmptyMap
                              ELSE DotenvTranslation(ldDotenv.values.ret)
        /\ ldLayers.envvars =
              AppliedInOrder(SelectSeq(osEnviron, LAMBDA kv : startswith(kv[1], DEFAULT_PREFIX)),
                             EmptyMap)

\* APP_DB__HOST and then APP_ in the .env file: the layer is empty; APP_ and
\* then APP_DB__HOST in the environment: db.host is applied
C29_Witness ==
    /\ ldPc = "done" /\ ldOut.exc # "MergeError"
    /\ DotenvIsRead
    /\ ldDotenv.values.ret = << <<APP_DB__HOST, "dot">>, <<APP_, "dot">> >>
    /\ ldLayers.dotenv = EmptyMap
    /\ osEnviron = << <<APP_, "env">>, <<APP_DB__HOST, "env">> >>
    /\ ldLayers.envvars = DbHost("env")

\* DB and then DB.HOST in the .env file: db holds a string when the dotted
\* key asks for a mapping there, and the layer is empty
C29_WitnessDotted ==
    /\ ldPc = "done" /\ ldOut.exc # "MergeError"
    /\ DotenvIsRead
    /\ ldDotenv.values.ret = << <<DB, "d3">>, <<DB_DOT_HOST, "d2">> >>
    /\ ldLayers.dotenv = EmptyMap


-----------------------------------------------------------------------------
(* SpecAssoc: an accumulator and two mappings merged into it, one by one as *)
(* load() merges its layers and _read_envvars its variables, and as one     *)
(* layer built first.                                                       *)

MaxAssocEntries == 2    \* keys of each of the three mappings, over all levels

AssocMappings == UNION {MapsOfSize(n) : n \in 0..MaxAssocEntries}

\* merged = deep_merge(merged, b); merged = deep_merge(merged, c)
merged_stepwise(a, b, c) == deep_merge(deep_merge(a, b), c)

\* the layer built with the later mapping below the earlier one
merged_at_once_swapped(a, b, c) == deep_merge(a, deep_merge(c, b))

\* out = deep_merge(b, c); merged = deep_merge(merged, out)
merged_at_once(a, b, c) == deep_merge(a, deep_merge(b, c))

AssocInit ==
    /\ aA \in AssocMappings
    /\ aB \in AssocMappings
    /\ aC \in AssocMappings
    /\ aStepwise = NoResult
    /\ aAtOnce = NoResult
    /\ aPc = "call"

CallBothGroupings ==
    /\ aPc = "call"
    /\ aStepwise' = Dict(merged_stepwise(aA, aB, aC))
    /\ aAtOnce' = Dict(merged_at_once(aA, aB, aC))
    /\ aPc' = "done"
    /\ UNCHANGED <<aA, aB, aC, mergeVars, keyVars, secretVars, getterVars, loadVars, yamlVars, schemaVars, heapVars, lifeVars, dotVars, repVars, callerVars>>

AssocNext == CallBothGroupings

SpecAssocInit == AssocInit /\ MergeIdle /\ KeyIdle /\ SecretsIdle /\ GetterIdle /\ LoadIdle /\ YamlIdle /\ SchemaIdle /\ HeapIdle /\ LifeIdle /\ DotIdle /\ RepeatIdle /\ CallersIdle
SpecAssoc == SpecAssocInit /\ [][AssocNext]_vars

-----------------------------------------------------------------------------
(* C30: deep_merge is associative except across a collision of a mapping,   *)
(* a non-mapping value and a mapping: when no key path holds a mapping in   *)
(* A, a value that is not a mapping in B and a mapping in C,                *)
(* deep_merge(deep_merge(A, B), C) = deep_merge(A, deep_merge(B, C)), so    *)
(* merging two variables into the accumulator one by one gives what merging *)
(* the layer built from them gives.                                         *)

RECURSIVE PathsUpTo(_)
PathsUpTo(n) ==
    IF n = 0 THEN {}
    ELSE {<<k>> : k \in TreeKeys}
            \cup {<<k>> \o p : k \in TreeKeys, p \in PathsUpTo(n - 1)}
AssocPaths == PathsUpTo(MaxAssocEntries)

Collision ==
    \E p \in AssocPaths : SetsMapping(aA, p) /\ SetsScalar(aB, p) /\ SetsMapping(aC, p)

C30_Associative ==
    (aPc = "done" /\ ~Collision) => aStepwise = aAtOnce

\* three mappings under db, a key of each kept or overlaid in both groupings
C30_Witness ==
    /\ aPc = "done" /\ ~Collision
    /\ aA = (KeyDb :> Dict(KeyHost :> Scalar("h1")))
    /\ aB = (KeyDb :> Dict(KeyDb :> Scalar("h1")))
    /\ aC = (KeyDb :> Dict(KeyHost :> Scalar("h2")))
    /\ aStepwise = Dict(KeyDb :> Dict((KeyDb :> Scalar("h1")) @@ (KeyHost :> Scalar("h2"))))
    /\ aAtOnce = aStepwise

\* the excluded collision: a mapping in A, a string in B, a mapping in C at
\* db, where the two groupings differ
C30_CollisionDiffers ==
    /\ aPc = "done" /\ Collision
    /\ aA = (KeyDb :> Dict(KeyHost :> Scalar("h1")))
    /\ aB = (KeyDb :> Scalar("h1"))
    /\ aC = (KeyDb :> Dict(KeyDb :> Scalar("h2")))
    /\ aStepwise # aAtOnce

====
